---- MODULE Spec2Model ----
(***************************************************************************)
(* Model of the data-access layer of the event management platform:        *)
(* AirtableService (src/src/services/airtableService.ts) with its retry    *)
(* wrapper and circuit breaker, and the TTL cache apiCache                 *)
(* (src/src/utils/performance.ts).                                         *)
(*                                                                         *)
(* Strings are sequences of one-character strings, so that toLowerCase,    *)
(* trim and the two regular expressions are computed, not assumed.         *)
(* Every async operation is a stack of frames per task; a step of a task   *)
(* runs its top frame from one await to the next.                          *)
(***************************************************************************)
EXTENDS Integers, Sequences, FiniteSets, TLC

VARIABLES
    rsvpTable,        \* the record store's RSVPs table, in creation order
    events,           \* the record store's Events table: id -> fields
    cache,            \* apiCache: key -> [data, timestamp]
    circuitState,     \* AirtableService.circuitState
    failureCount,     \* AirtableService.failureCount
    lastFailureTime,  \* AirtableService.lastFailureTime
    now,              \* Date.now(), in ms
    stack,            \* task -> stack of frames of its pending async calls
    result,           \* task -> outcome of its latest public call
    pre,              \* task -> store and cache when its latest call began, and
                      \*   whether its event was over by then
    reqs,             \* task -> HTTP requests sent by its latest call
    consec,           \* failed attempts since the last successful attempt
    faults,           \* HTTP errors injected so far
    calls,            \* public calls started so far
    scen,             \* position in the capacity-1 scenario, or -1
    organizerTable,   \* the record store's Organizers table, in creation order
    issued,           \* email -> ids that createOrganizer has returned for it
    posted,           \* an event creation payload, the fields createEvent
                      \*   writes for it and the event read back from them
    rendered,         \* the props AttendeeList was rendered with, and its output
    timeZone,         \* hours the browser's time zone is ahead of UTC
    retryTimer,       \* the arguments and result of a calculateRetryDelay call
    queue,            \* OfflineHandler.queue
    isProcessing,     \* OfflineHandler.isProcessing
    itemsToProcess,   \* processQueue's snapshot, from the item being awaited on
    timers,           \* pending setTimeout callbacks of processQueue
    onLine,           \* navigator.onLine
    executed,         \* item -> times its operation has been executed
    queued,           \* items placed in the queue so far
    late,             \* items that were queued while a drain was running
    dropped           \* items given up after their last failure

vars == <<rsvpTable, events, cache, circuitState, failureCount, lastFailureTime,
          now, stack, result, pre, reqs, consec, faults, calls, scen,
          organizerTable, issued, posted, rendered, timeZone, retryTimer,
          queue, isProcessing, itemsToProcess, timers, onLine, executed, queued,
          late, dropped>>

\* The state of the service, its cache and the views.
serviceVars == <<rsvpTable, events, cache, circuitState, failureCount,
                 lastFailureTime, now, stack, result, pre, reqs, consec, faults,
                 calls, scen, organizerTable, issued, posted, rendered,
                 timeZone>>

\* The state of the offline queue.
offlineVars == <<queue, isProcessing, itemsToProcess, timers, onLine,
                 executed, queued, late, dropped>>

-----------------------------------------------------------------------------
(* Bounds of the model *)

MaxRows == 3
MaxCapacity == 2
MaxCalls == 5
MaxFaults == 1
MaxNow == 600000
MaxCallsB == 3
MaxFaultsB == 5
MaxNowB == 90000
MaxCallsC == 4
MaxFaultsC == 5
MaxNowC == 60000
MaxCallsD == 1
MaxFaultsD == 1
MaxOther == 1
MaxNowD == 600000
MaxNowO == 60000
MaxCallsO == 3
MaxFaultsO == 2
MaxUtcOffset == 1
MaxAttendees == 3
MaxCallsR == 1
MaxFaultsR == 2
MaxNowR == 60000
MaxCallsF == 6
MaxFaultsF == 1
MaxNowF == 300000
MaxCallsU == 2
MaxFaultsU == 1
MaxNowU == 600000
MaxCallsH == 3
MaxFaultsH == 5
MaxNowH == 120000
MaxCallsL == 2
MaxFaultsL == 2
MaxNowL == 60000
MaxAttempt == 5
JitterSteps == 10
MaxQueued == 2

-----------------------------------------------------------------------------
(* Program constants *)

maxRetries == 3
failureThreshold == 5
recoveryTimeout == 60000
ttl == 5 * 60 * 1000
IdLength == 14
maxRetryDelay == 30000
retryDelay == 1000
rateLimitDelay == 5000
offlineMaxRetries == 3

-----------------------------------------------------------------------------
(* Characters and strings *)

UpperSeq == <<"A","B","C","D","E","F","G","H","I","J","K","L","M",
              "N","O","P","Q","R","S","T","U","V","W","X","Y","Z">>
LowerSeq == <<"a","b","c","d","e","f","g","h","i","j","k","l","m",
              "n","o","p","q","r","s","t","u","v","w","x","y","z">>
Digits == {"0","1","2","3","4","5","6","7","8","9"}
Whitespace == {" ", "\t", "\n", "\r"}

Range(s) == {s[i] : i \in 1..Len(s)}
Alnum == Range(UpperSeq) \cup Range(LowerSeq) \cup Digits

toLowerChar(c) ==
    IF \E i \in 1..Len(UpperSeq) : UpperSeq[i] = c
    THEN LowerSeq[CHOOSE i \in 1..Len(UpperSeq) : UpperSeq[i] = c]
    ELSE c

toLowerCase(s) == [i \in 1..Len(s) |-> toLowerChar(s[i])]

RECURSIVE trimStart(_)
trimStart(s) ==
    IF s # <<>> /\ Head(s) \in Whitespace THEN trimStart(Tail(s)) ELSE s

RECURSIVE trimEnd(_)
trimEnd(s) ==
    IF s # <<>> /\ s[Len(s)] \in Whitespace
    THEN trimEnd(SubSeq(s, 1, Len(s) - 1)) ELSE s

trim(s) == trimEnd(trimStart(s))

\* /^[^\s@]+@[^\s@]+\.[^\s@]+$/.test(s)
emailRegexTest(s) ==
    \E i \in 2..Len(s) :
        /\ s[i] = "@"
        /\ \A k \in 1..Len(s) : k # i => s[k] \notin (Whitespace \cup {"@"})
        /\ \E j \in (i + 2)..(Len(s) - 1) : s[j] = "."

\* The pattern without its anchors, /rec[a-zA-Z0-9]{14}/: a match anywhere
\* in the string.
airtableIdPatternUnanchored(s) ==
    \E i \in 1..(Len(s) - (2 + IdLength)) :
        /\ SubSeq(s, i, i + 2) = <<"r","e","c">>
        /\ \A k \in (i + 3)..(i + 2 + IdLength) : s[k] \in Alnum

\* /^rec[a-zA-Z0-9]{14}$/.test(s)
airtableIdPatternTest(s) ==
    /\ Len(s) = 3 + IdLength
    /\ SubSeq(s, 1, 3) = <<"r","e","c">>
    /\ \A k \in 4..Len(s) : s[k] \in Alnum

-----------------------------------------------------------------------------
(* Inputs *)

EV == <<"r","e","c","A","b","c","1","2","3","4","5","6","7","8","9","0","Z">>
EV2 == <<"r","e","c","9","9","9","9","9","9","9","9","9","9","9","9","9","9">>

BadIds == {
    <<>>,
    <<" ">>,
    <<" ", "\t">>,
    <<"i","n","v","a","l","i","d","-","i","d">>,
    <<"r","e","c","1","2","3">>,
    <<"R","E","C","A","b","c","1","2","3","4","5","6","7","8","9","0","Z">>,
    <<"r","e","c","A","b","c","1","2","3","4","5","6","7","8","9","-","Z">>,
    <<"r","e","c","A","b","c","1","2","3","4","5","6","7","8","9","0","Z","1">>,
    <<"r","e","c","A","b","c","1","2","3","4","5","6","7","8","9","0"," ">>,
    <<" ","r","e","c","A","b","c","1","2","3","4","5","6","7","8","9","0","Z">> }

EmailA == <<"a","@","x",".","c">>
EmailAUpper == <<"A","@","X",".","c">>
EmailB == <<"b","@","x",".","c">>
EmailO == <<"o","@","x",".","c">>
GoodEmails == {EmailA, EmailAUpper, EmailB}
BadMail == <<"i","n","v","a","l","i","d","-","e","m","a","i","l">>
BadEmails == {
    BadMail,
    <<>>,
    <<"n","o","t","-","a","n","-","e","m","a","i","l">>,
    <<"a","@","x">>,
    <<"a"," ","@","x",".","c">>,
    <<"@","x",".","c">>,
    <<"a","@","x",".">> }


OrganizerEmails == {EmailA, EmailAUpper, EmailB}

FutureTime == MaxNow + recoveryTimeout

-----------------------------------------------------------------------------
(* Errors *)

AppError(type, statusCode) == [type |-> type, statusCode |-> statusCode]
NoError == AppError("NONE", 0)
ErrorTypes == {"NETWORK_ERROR", "VALIDATION_ERROR", "RATE_LIMIT_ERROR",
               "NOT_FOUND_ERROR", "CAPACITY_EXCEEDED"}

\* error instanceof AppError
isAppError(error) == error.type \in ErrorTypes

\* The TypeError the runtime raises on `undefined.map(...)`.
TypeError == [type |-> "TypeError", statusCode |-> 0]

\* A reply with status 200 whose body has no `records` array.
NoRecords == 299

\* The response interceptor; status 0 stands for "no response received".
handleApiError(status) ==
    CASE status = 400 -> AppError("VALIDATION_ERROR", status)
      [] status = 401 -> AppError("NETWORK_ERROR", status)
      [] status = 403 -> AppError("NETWORK_ERROR", status)
      [] status = 404 -> AppError("NOT_FOUND_ERROR", status)
      [] status = 413 -> AppError("VALIDATION_ERROR", status)
      [] status = 422 -> AppError("VALIDATION_ERROR", status)
      [] status = 429 -> AppError("RATE_LIMIT_ERROR", status)
      [] status = 0   -> AppError("NETWORK_ERROR", 0)
      [] OTHER        -> AppError("NETWORK_ERROR", status)

\* The retry test that takes every NETWORK_ERROR for a transient one.
isRetryableAnyNetworkError(error) ==
    error.type \in {"RATE_LIMIT_ERROR", "NETWORK_ERROR"}

isRetryableError(error) ==
    CASE error.type = "RATE_LIMIT_ERROR" -> TRUE
      [] error.type = "NETWORK_ERROR" ->
            error.statusCode = 0 \/ error.statusCode >= 500
      [] OTHER -> FALSE

-----------------------------------------------------------------------------
(* apiCache: SimpleCache *)

eventKey(id) == [kind |-> "event", id |-> id]
rsvpsKey(id) == [kind |-> "rsvps:event", id |-> id]
EventIds == {EV, EV2} \cup BadIds
CacheKeys == {eventKey(id) : id \in EventIds} \cup {rsvpsKey(id) : id \in EventIds}

\* a key the Map does not hold
NoEntry == [present |-> FALSE, data |-> <<>>, timestamp |-> 0]

cacheExpired(c, key, t) == c[key].present /\ t - c[key].timestamp > ttl
cacheHit(c, key, t) == c[key].present /\ ~cacheExpired(c, key, t)
cacheDelete(c, key) == [c EXCEPT ![key] = NoEntry]
\* get() drops an expired entry as a side effect
cacheAfterGet(c, key, t) == IF cacheExpired(c, key, t) THEN cacheDelete(c, key) ELSE c
cacheSet(c, key, data, t) ==
    [c EXCEPT ![key] = [present |-> TRUE, data |-> data, timestamp |-> t]]

-----------------------------------------------------------------------------
(* createEvent's write mapping and the read mapper *)

DigitSeq == <<"0","1","2","3","4","5","6","7","8","9">>
digitValue(c) == (CHOOSE i \in 1..Len(DigitSeq) : DigitSeq[i] = c) - 1

\* parseInt of a string of digits
RECURSIVE parseInt(_)
parseInt(s) ==
    IF s = <<>> THEN 0
    ELSE 10 * parseInt(SubSeq(s, 1, Len(s) - 1)) + digitValue(s[Len(s)])

\* `${n}` of a natural number
RECURSIVE numberToString(_)
numberToString(n) ==
    IF n < 10 THEN <<DigitSeq[n + 1]>>
    ELSE numberToString(n \div 10) \o <<DigitSeq[(n % 10) + 1]>>

\* String(n).padStart(width, '0')
RECURSIVE padStart(_, _)
padStart(s, width) == IF Len(s) >= width THEN s ELSE padStart(<<"0">> \o s, width)

\* s.split(sep)[k], k from 0
RECURSIVE splitPart(_, _, _)
splitPart(s, sep, k) ==
    LET cut == IF \E i \in 1..Len(s) : s[i] = sep
               THEN CHOOSE i \in 1..Len(s) : s[i] = sep /\ \A j \in 1..(i - 1) : s[j] # sep
               ELSE Len(s) + 1
    IN IF k = 0 THEN SubSeq(s, 1, cut - 1)
       ELSE IF cut > Len(s) THEN <<>>
       ELSE splitPart(SubSeq(s, cut + 1, Len(s)), sep, k - 1)

\* M/D/YYYY of a YYYY-MM-DD date
eventDate(date) ==
    numberToString(parseInt(splitPart(date, "-", 1))) \o <<"/">>
        \o numberToString(parseInt(splitPart(date, "-", 2))) \o <<"/">>
        \o splitPart(date, "-", 0)

\* "\n\nEvent Time: "
TimeSuffix == <<"\n","\n","E","v","e","n","t"," ","T","i","m","e",":"," ">>

\* "Event Time:"
TimeMarker == SubSeq(TimeSuffix, 3, 13)

eventData(eventRequest) ==
    [title |-> eventRequest.title,
     description |-> eventRequest.description \o TimeSuffix \o eventRequest.time,
     date |-> eventDate(eventRequest.date),
     location |-> eventRequest.location,
     capacity |-> eventRequest.capacity,
     organizer_id |-> eventRequest.organizerId]

\* /^\d{4}-\d{2}-\d{2}$/
isoDatePatternTest(s) ==
    /\ Len(s) = 10
    /\ \A i \in {1, 2, 3, 4, 6, 7, 9, 10} : s[i] \in Digits
    /\ s[5] = "-" /\ s[8] = "-"

isLeapYear(y) == (y % 4 = 0 /\ y % 100 # 0) \/ y % 400 = 0

daysInMonth(y, m) ==
    IF m = 2 THEN (IF isLeapYear(y) THEN 29 ELSE 28)
    ELSE IF m \in {4, 6, 9, 11} THEN 30 ELSE 31

previousDay(d) ==
    IF d.day > 1 THEN [d EXCEPT !.day = @ - 1]
    ELSE IF d.month > 1
    THEN [year |-> d.year, month |-> d.month - 1, day |-> daysInMonth(d.year, d.month - 1)]
    ELSE [year |-> d.year - 1, month |-> 12, day |-> 31]

\* new Date('M/D/YYYY'): midnight of that day in the local time zone
parseLocalDate(s) ==
    [month |-> parseInt(splitPart(s, "/", 0)),
     day |-> parseInt(splitPart(s, "/", 1)),
     year |-> parseInt(splitPart(s, "/", 2))]

\* toISOString().split('T')[0] of local midnight: the UTC calendar day, which
\* is the day before in a zone ahead of UTC (utcOffset in hours, east positive)
isoDateOfLocalMidnight(d, utcOffset) ==
    LET u == IF utcOffset > 0 THEN previousDay(d) ELSE d
    IN padStart(numberToString(u.year), 4) \o <<"-">>
        \o padStart(numberToString(u.month), 2) \o <<"-">>
        \o padStart(numberToString(u.day), 2)

\* new Date().toISOString().split('T')[0]: the day the model's clock runs in
Today == <<"2","0","2","7","-","0","1","-","0","1">>

\* An ISO date-time string, YYYY-MM-DDTHH:MM:00.000Z
isDateTime(s) == Len(s) = 24 /\ s[11] = "T"

nextDay(d) ==
    IF d.day < daysInMonth(d.year, d.month) THEN [d EXCEPT !.day = @ + 1]
    ELSE IF d.month < 12 THEN [year |-> d.year, month |-> d.month + 1, day |-> 1]
    ELSE [year |-> d.year + 1, month |-> 1, day |-> 1]

isoDate(d) ==
    padStart(numberToString(d.year), 4) \o <<"-">>
        \o padStart(numberToString(d.month), 2) \o <<"-">>
        \o padStart(numberToString(d.day), 2)

\* new Date(`${date}T${time}:00`).toISOString() for a YYYY-MM-DD date and an
\* HH:MM time of the local zone, utcOffset hours ahead of UTC
localToISOString(date, time, utcOffset) ==
    LET d == [year |-> parseInt(splitPart(date, "-", 0)),
              month |-> parseInt(splitPart(date, "-", 1)),
              day |-> parseInt(splitPart(date, "-", 2))]
        h == parseInt(splitPart(time, ":", 0)) - utcOffset
        u == IF h < 0 THEN previousDay(d) ELSE IF h >= 24 THEN nextDay(d) ELSE d
    IN isoDate(u) \o <<"T">> \o padStart(numberToString((h + 24) % 24), 2)
        \o <<":">> \o splitPart(time, ":", 1)
        \o <<":","0","0",".","0","0","0","Z">>

dateFromAirtable(date, utcOffset) ==
    IF date = <<>> THEN Today
    ELSE IF isoDatePatternTest(date) THEN date
    ELSE IF isDateTime(date) THEN SubSeq(date, 1, 10)
    ELSE isoDateOfLocalMidnight(parseLocalDate(date), utcOffset)

startsAt(s, i, pattern) ==
    /\ i >= 1
    /\ i + Len(pattern) - 1 <= Len(s)
    /\ SubSeq(s, i, i + Len(pattern) - 1) = pattern

\* description.includes('Event Time:')
includesTimeMarker(s) == \E i \in 1..Len(s) : startsAt(s, i, TimeMarker)

RECURSIVE skipWhitespace(_, _)
skipWhitespace(s, i) ==
    IF i <= Len(s) /\ s[i] \in Whitespace THEN skipWhitespace(s, i + 1) ELSE i

\* \d{2}:\d{2} at position j
clockAt(s, j) ==
    /\ j + 4 <= Len(s)
    /\ s[j] \in Digits /\ s[j + 1] \in Digits
    /\ s[j + 2] = ":"
    /\ s[j + 3] \in Digits /\ s[j + 4] \in Digits

\* /Event Time:\s*(\d{2}:\d{2})/ tried at position i: where its group starts, or 0
timeGroupAt(s, i) ==
    IF startsAt(s, i, TimeMarker) /\ clockAt(s, skipWhitespace(s, i + Len(TimeMarker)))
    THEN skipWhitespace(s, i + Len(TimeMarker)) ELSE 0

DefaultTime == <<"1","0",":","0","0">>

timeFromDescription(description) ==
    LET hits == {i \in 1..Len(description) : timeGroupAt(description, i) > 0}
    IN IF includesTimeMarker(description) /\ hits # {}
       THEN LET i == CHOOSE i \in hits : \A k \in hits : i <= k
            IN SubSeq(description, timeGroupAt(description, i),
                      timeGroupAt(description, i) + 4)
       ELSE DefaultTime

\* description.replace(/\n\nEvent Time:\s*\d{2}:\d{2}/, '').trim()
cleanDescription(description) ==
    LET hits == {i \in 1..Len(description) :
                    /\ startsAt(description, i, <<"\n","\n">>)
                    /\ timeGroupAt(description, i + 2) > 0}
    IN IF ~includesTimeMarker(description) THEN description
       ELSE IF hits = {} THEN trim(description)
       ELSE LET i == CHOOSE i \in hits : \A k \in hits : i <= k
                e == timeGroupAt(description, i + 2) + 4
            IN trim(SubSeq(description, 1, i - 1)
                    \o SubSeq(description, e + 1, Len(description)))

\* transformEventFromAirtable in full, for a record read where the local
\* time zone is utcOffset hours ahead of UTC
transformEventRecord(fields, utcOffset) ==
    [title |-> fields.title,
     description |-> cleanDescription(fields.description),
     date |-> dateFromAirtable(fields.date, utcOffset),
     time |-> timeFromDescription(fields.description),
     location |-> fields.location,
     capacity |-> fields.capacity,
     organizerId |-> fields.organizer_id]

\* createEventSchema: /^([0-1]?[0-9]|2[0-3]):[0-5][0-9]$/
timeSchemaTest(s) ==
    \/ /\ Len(s) = 5
       /\ \/ s[1] \in {"0", "1"} /\ s[2] \in Digits
          \/ s[1] = "2" /\ s[2] \in {"0", "1", "2", "3"}
       /\ s[3] = ":" /\ s[4] \in {"0","1","2","3","4","5"} /\ s[5] \in Digits
    \/ /\ Len(s) = 4
       /\ s[1] \in Digits
       /\ s[2] = ":" /\ s[3] \in {"0","1","2","3","4","5"} /\ s[4] \in Digits

\* createEventSchema on the fields the mappers reshape
createEventSchemaTest(eventRequest) ==
    /\ Len(eventRequest.title) >= 1
    /\ Len(eventRequest.description) >= 1
    /\ isoDatePatternTest(eventRequest.date)
    /\ timeSchemaTest(eventRequest.time)
    /\ Len(eventRequest.location) >= 1
    /\ eventRequest.capacity >= 1
    /\ Len(eventRequest.organizerId) >= 1

NoRequest == [title |-> <<>>, description |-> <<>>, date |-> <<>>, time |-> <<>>,
              location |-> <<>>, capacity |-> 0, organizerId |-> <<>>]
NoFields == [title |-> <<>>, description |-> <<>>, date |-> <<>>,
             location |-> <<>>, capacity |-> 0, organizer_id |-> <<>>]
NoPost == [phase |-> "none", request |-> NoRequest, fields |-> NoFields,
           event |-> NoRequest, utcOffset |-> 0]

Dates == { <<"2","0","2","7","-","0","3","-","0","5">>,
           <<"2","0","2","7","-","0","3","-","0","1">>,
           <<"2","0","2","8","-","0","3","-","0","1">>,
           <<"2","0","2","7","-","0","1","-","0","1">>,
           <<"2","0","2","7","-","1","2","-","3","1">> }

Times == { <<"0","9",":","3","0">>, <<"9",":","3","0">>,
           <<"2","3",":","0","5">>, <<"2","4",":","0","0">> }

Descriptions == { <<"H","i">>, <<" ","H","i">>,
                  <<"E","v","e","n","t"," ","T","i","m","e",":","1","1",":","1","1">>,
                  <<>> }

EventRequests ==
    {[title |-> <<"T">>, description |-> d, date |-> dt, time |-> tm,
      location |-> <<"L">>, capacity |-> c, organizerId |-> EV2] :
        d \in Descriptions, dt \in Dates, tm \in Times, c \in {MaxCapacity}}

-----------------------------------------------------------------------------
(* Records and entities *)

NoRow == [id |-> 0, eventId |-> <<>>, attendeeName |-> <<>>,
          attendeeEmail |-> <<>>, status |-> "none"]
NoEvent == [id |-> <<>>, capacity |-> 0, at |-> 0, title |-> <<>>,
            description |-> <<>>, date |-> <<>>, time |-> <<>>]

transformRSVPFromAirtable(record) ==
    [id |-> record.id,
     eventId |-> record.fields.event_id,
     attendeeName |-> record.fields.attendee_name,
     attendeeEmail |-> record.fields.attendee_email,
     status |-> record.fields.status]

\* `at` stands for the instant new Date(`${date}T${time}`) of the record's
\* date and time on the clock `now`.
transformEventFromAirtable(id, fields) ==
    [id |-> id, capacity |-> fields.capacity, at |-> fields.at,
     title |-> fields.title,
     description |-> cleanDescription(fields.description),
     date |-> dateFromAirtable(fields.date, timeZone),
     time |-> timeFromDescription(fields.description)]

\* A complete record of the Events table, as createEvent writes it.
StoredEvent(capacity, at) ==
    [capacity |-> capacity, at |-> at, title |-> <<"T">>,
     description |-> <<"H","i">> \o TimeSuffix \o <<"0","9",":","3","0">>,
     date |-> <<"3","/","5","/","2","0","2","7">>]

\* The fields of an UpdateEventRequest that reach the date, the time or the
\* description; <<>> is a field left undefined.
NoUpdates == [description |-> <<>>, date |-> <<>>, time |-> <<>>]

changesDateOrTime(updates) == updates.date # <<>> \/ updates.time # <<>>

\* The record after the PATCH of updateData: the description when given,
\* and the date field rebuilt from the update and the current event.
patchedFields(fields, updates, currentEvent, utcOffset) ==
    LET described == IF updates.description # <<>>
                     THEN [fields EXCEPT !.description = updates.description]
                     ELSE fields
        date == IF updates.date # <<>> THEN updates.date ELSE currentEvent.date
        time == IF updates.time # <<>> THEN updates.time ELSE currentEvent.time
    IN IF changesDateOrTime(updates)
       THEN [described EXCEPT !.date = localToISOString(date, time, utcOffset)]
       ELSE described

\* !event.title || !event.date || !event.time
isIncomplete(event) == event.title = <<>> \/ event.date = <<>> \/ event.time = <<>>

\* filterByFormula {event_id} = eventId, sorted by creation
RecordsOfEvent(table, eventId) ==
    SelectSeq(table, LAMBDA r : r.fields.event_id = eventId)

\* records.map(record => this.transformRSVPFromAirtable(record))
transformRSVPs(records) ==
    [i \in 1..Len(records) |-> transformRSVPFromAirtable(records[i])]

\* Number of confirmed rows of the event in a table of the store.
ConfirmedIn(table, eventId) ==
    Cardinality({i \in 1..Len(table) :
        table[i].fields.event_id = eventId /\ table[i].fields.status = "confirmed"})

\* The past-event test with the comparison turned around.
isPastEventReversed(event, currentTime) == event.at > currentTime

\* eventDateTime < currentTime
isPastEvent(event, currentTime) == event.at < currentTime

confirmedOf(rsvps) == SelectSeq(rsvps, LAMBDA r : r.status = "confirmed")

\* The capacity test with a strict comparison.
overCapacity(rsvps, capacity) == Len(confirmedOf(rsvps)) > capacity

\* confirmedRSVPs.length >= event.capacity
atCapacity(rsvps, capacity) == Len(confirmedOf(rsvps)) >= capacity

\* existingRSVPs.find(r => r.attendeeEmail.toLowerCase() === email.toLowerCase())
findByEmail(rsvps, email) ==
    LET hits == {i \in 1..Len(rsvps) :
                    toLowerCase(rsvps[i].attendeeEmail) = toLowerCase(email)}
    IN IF hits = {} THEN NoRow
       ELSE rsvps[CHOOSE i \in hits : \A j \in hits : i <= j]

rsvpData(eventId, name, email) ==
    [event_id |-> eventId,
     attendee_name |-> trim(name),
     attendee_email |-> trim(toLowerCase(email)),
     status |-> "confirmed"]

NoOrganizer == [id |-> 0, name |-> <<>>, email |-> <<>>]

transformOrganizerFromAirtable(record) ==
    [id |-> record.id, name |-> record.fields.name, email |-> record.fields.email]

\* filterByFormula {email} = 'email': the rows whose email is that string
OrganizersByEmail(table, email) ==
    SelectSeq(table, LAMBDA r : r.fields.email = email)

\* records.map(record => this.transformOrganizerFromAirtable(record))
transformOrganizers(records) ==
    [i \in 1..Len(records) |-> transformOrganizerFromAirtable(records[i])]

organizerData(name, email) == [name |-> name, email |-> email]

\* The lookup test asking for more than one match.
hasSeveralOrganizers(existingOrganizers) == Len(existingOrganizers) > 1

\* existingOrganizers.length > 0
hasExistingOrganizer(existingOrganizers) == Len(existingOrganizers) > 0

-----------------------------------------------------------------------------
(* Frames of pending async calls *)

NoRet == [set |-> FALSE, ok |-> FALSE, err |-> NoError,
          rows |-> <<>>, row |-> NoRow, event |-> NoEvent,
          organizers |-> <<>>, organizer |-> NoOrganizer]
OkRet == [NoRet EXCEPT !.set = TRUE, !.ok = TRUE]
ErrRet(e) == [NoRet EXCEPT !.set = TRUE, !.err = e]

NewFrame(op, eventId, name, email, rsvpId, status) ==
    [op |-> op, pc |-> "entry", retries |-> maxRetries, attempts |-> 0,
     eventId |-> eventId, name |-> name, email |-> email,
     rsvpId |-> rsvpId, status |-> status,
     event |-> NoEvent, existing |-> <<>>, loaded |-> FALSE,
     latest |-> <<>>, reloaded |-> FALSE, seen |-> 0, seen1 |-> 0,
     ret |-> NoRet, ckState |-> "NONE", armedAt |-> 0, error |-> NoError,
     updates |-> NoUpdates]

Top(t) == stack[t][Len(stack[t])]
Running(t) == stack[t] # <<>>
SetTop(t, f) == [stack EXCEPT ![t] = [stack[t] EXCEPT ![Len(stack[t])] = f]]
Push(t, f, child) ==
    [stack EXCEPT ![t] = Append([stack[t] EXCEPT ![Len(stack[t])] = f], child)]

IdleResult == [op |-> "none", phase |-> "idle", eventId |-> <<>>, name |-> <<>>,
               email |-> <<>>, rsvpId |-> 0, status |-> "none",
               ok |-> FALSE, err |-> NoError, row |-> NoRow, attempts |-> 0,
               existing |-> <<>>, loaded |-> FALSE,
               latest |-> <<>>, reloaded |-> FALSE, rows |-> <<>>,
               organizer |-> NoOrganizer,
               updates |-> NoUpdates, event |-> NoEvent]


-----------------------------------------------------------------------------
(* Circuit breaker *)

\* The recovery test with a strict comparison.
recoveryElapsedStrictly == now - lastFailureTime > recoveryTimeout

recoveryElapsed == now - lastFailureTime >= recoveryTimeout

\* checkCircuitBreaker throws exactly when the circuit is OPEN and young
circuitRejects == circuitState = "OPEN" /\ ~recoveryElapsed

stateAfterCheck ==
    IF circuitState = "OPEN" /\ recoveryElapsed THEN "HALF_OPEN" ELSE circuitState

stateAfterSuccess(cs) == IF cs = "HALF_OPEN" THEN "CLOSED" ELSE cs

\* The reset that only a half-open trial performs.
countAfterTrialOnly(cs, fc) == IF cs = "HALF_OPEN" THEN 0 ELSE fc

countAfterSuccess(cs, fc) ==
    IF cs = "HALF_OPEN" THEN 0
    ELSE IF cs = "CLOSED" /\ fc > 0 THEN 0 ELSE fc

\* The threshold test that only opens a CLOSED circuit.
stateAfterFailureFromClosed(cs, fc) ==
    IF cs = "CLOSED" /\ fc >= failureThreshold THEN "OPEN" ELSE cs

\* The threshold test with a strict comparison.
stateAfterFailureStrict(cs, fc) == IF fc > failureThreshold THEN "OPEN" ELSE cs

stateAfterFailure(cs, fc) == IF fc >= failureThreshold THEN "OPEN" ELSE cs

recordSuccess ==
    /\ circuitState' = stateAfterSuccess(circuitState)
    /\ failureCount' = countAfterSuccess(circuitState, failureCount)
    /\ lastFailureTime' = lastFailureTime
    /\ consec' = 0

recordFailure ==
    /\ failureCount' = failureCount + 1
    /\ lastFailureTime' = now
    /\ circuitState' = stateAfterFailure(circuitState, failureCount + 1)
    /\ consec' = consec + 1

\* The retry test with an off-by-one budget.
shouldRetryOnceMore(retries, error) ==
    retries >= 0 /\ isAppError(error) /\ isRetryableError(error)

shouldRetry(retries, error) ==
    retries > 0 /\ isAppError(error) /\ isRetryableError(error)

-----------------------------------------------------------------------------
(* The capacity-1 scenario: createRSVP(A); createRSVP(B); cancel A;         *)
(* createRSVP(B) on an event with capacity 1 and no RSVPs, no HTTP error.   *)

ScenarioMatches(k, res) ==
    CASE k = 1 -> res.op = "createRSVP" /\ res.eventId = EV /\ res.email = EmailA
      [] k = 2 -> res.op = "createRSVP" /\ res.eventId = EV /\ res.email = EmailB
      [] k = 3 -> /\ res.op = "updateRSVP" /\ res.status = "cancelled"
                  /\ res.rsvpId \in 1..Len(rsvpTable)
                  /\ rsvpTable[res.rsvpId].fields.attendee_email = EmailA
      [] k = 4 -> res.op = "createRSVP" /\ res.eventId = EV /\ res.email = EmailB
      [] OTHER -> FALSE

ScenNext(res) ==
    IF scen >= 0 /\ faults' = 0 /\ ScenarioMatches(scen + 1, res)
    THEN scen + 1 ELSE -1

-----------------------------------------------------------------------------
(* Completion of the top frame *)

\* The top frame f settles with r: the awaiting frame below resumes with
\* it, or the public call of the task is over.
Deliver(t, f, r) ==
    IF Len(stack[t]) = 1
    THEN /\ stack' = [stack EXCEPT ![t] = <<>>]
         /\ result' = [result EXCEPT ![t] =
                [result[t] EXCEPT !.phase = "done", !.ok = r.ok, !.err = r.err,
                                  !.row = r.row, !.attempts = f.attempts,
                                  !.existing = f.existing,
                                  !.loaded = f.loaded,
                                  !.latest = f.latest,
                                  !.reloaded = f.reloaded,
                                  !.rows = r.rows,
                                  !.organizer = r.organizer,
                                  !.event = r.event]]
         /\ scen' = ScenNext(result[t])
         /\ issued' = IF f.op = "createOrganizer" /\ r.ok
                       THEN [issued EXCEPT ![f.email] = @ \cup {r.organizer.id}]
                       ELSE issued
    ELSE /\ stack' = [stack EXCEPT ![t] =
                [SubSeq(stack[t], 1, Len(stack[t]) - 1)
                    EXCEPT ![Len(stack[t]) - 1].ret = r,
                           ![Len(stack[t]) - 1].seen = ConfirmedIn(rsvpTable, EV)]]
         /\ UNCHANGED <<result, scen, issued>>

Goto(t, f) == stack' = SetTop(t, f) /\ UNCHANGED <<result, scen, issued>>

Call(t, f, child) == stack' = Push(t, f, child) /\ UNCHANGED <<result, scen, issued>>

\* retryRequest: operation() resolved
Succeed(t, f, r) == recordSuccess /\ Deliver(t, f, r)

\* retryRequest: operation() rejected with error e
Fail(t, f, e) ==
    /\ recordFailure
    /\ IF shouldRetry(f.retries, e)
       THEN Goto(t, [f EXCEPT !.pc = "backoff", !.armedAt = now, !.error = e])
       ELSE Deliver(t, f, ErrRet(e))

\* a rejection raised outside the try block of retryRequest
Throw(t, f, e) ==
    /\ UNCHANGED <<circuitState, failureCount, lastFailureTime, consec>>
    /\ Deliver(t, f, ErrRet(e))

\* a value returned without entering retryRequest (served from the cache)
Return(t, f, r) ==
    /\ UNCHANGED <<circuitState, failureCount, lastFailureTime, consec>>
    /\ Deliver(t, f, r)

Continue(t, f) ==
    /\ UNCHANGED <<circuitState, failureCount, lastFailureTime, consec>>
    /\ Goto(t, f)

-----------------------------------------------------------------------------
(* Steps of a task *)

Tasks == {1, 2}

\* The event loop runs a task's synchronous code and its ready promise
\* continuations to completion: a task yields only while it awaits an HTTP
\* response or a retry timer.
Busy(t) == Running(t) /\ Top(t).pc \notin {"http", "backoff"}
Yielded(t) == \A u \in Tasks \ {t} : ~Busy(u)

\* A public method of the service is called by an idle task.
StartCall(t, op, eventId, name, email, rsvpId, status, updates, maxCalls) ==
    /\ ~Running(t)
    /\ Yielded(t)
    /\ calls < maxCalls
    /\ calls' = calls + 1
    /\ stack' = [stack EXCEPT ![t] =
            <<[NewFrame(op, eventId, name, email, rsvpId, status)
                    EXCEPT !.updates = updates]>>]
    /\ result' = [result EXCEPT ![t] =
            [IdleResult EXCEPT !.op = op, !.phase = "running",
                               !.eventId = eventId, !.name = name,
                               !.email = email, !.rsvpId = rsvpId,
                               !.status = status, !.updates = updates]]
    /\ pre' = [pre EXCEPT ![t] = [rsvpTable |-> rsvpTable, cache |-> cache,
                                   events |-> events,
                                   faults |-> faults, circuitState |-> circuitState,
                                   past |-> eventId \in DOMAIN events
                                            /\ events[eventId].at < now]]
    /\ reqs' = [reqs EXCEPT ![t] = 0]
    /\ UNCHANGED <<rsvpTable, events, organizerTable, issued, posted, rendered, cache, circuitState, failureCount,
                   lastFailureTime, now, consec, faults, scen,
                   retryTimer, timeZone, offlineVars>>

\* The part of a method that runs before it enters retryRequest.
Entry(t) ==
    /\ Running(t)
    /\ Yielded(t)
    /\ Top(t).pc = "entry"
    /\ UNCHANGED <<rsvpTable, events, organizerTable, posted, rendered, now, pre, reqs, faults, calls,
                   retryTimer, timeZone, offlineVars>>
    /\ LET f == Top(t) IN
       CASE f.op = "getEvent" ->
              IF f.eventId = <<>> \/ Len(trim(f.eventId)) = 0
              THEN /\ Throw(t, f, AppError("VALIDATION_ERROR", 0))
                   /\ UNCHANGED cache
              ELSE IF ~airtableIdPatternTest(f.eventId)
              THEN /\ Throw(t, f, AppError("NOT_FOUND_ERROR", 0))
                   /\ UNCHANGED cache
              ELSE /\ cache' = cacheAfterGet(cache, eventKey(f.eventId), now)
                   /\ IF cacheHit(cache, eventKey(f.eventId), now)
                      THEN Return(t, f, [OkRet EXCEPT
                                !.event = cache[eventKey(f.eventId)].data])
                      ELSE Continue(t, [f EXCEPT !.pc = "check"])
         [] f.op = "getRSVPsByEvent" ->
              /\ cache' = cacheAfterGet(cache, rsvpsKey(f.eventId), now)
              /\ IF cacheHit(cache, rsvpsKey(f.eventId), now)
                 THEN Return(t, f, [OkRet EXCEPT
                            !.rows = cache[rsvpsKey(f.eventId)].data])
                 ELSE Continue(t, [f EXCEPT !.pc = "check"])
         [] OTHER ->
              /\ UNCHANGED cache
              /\ Continue(t, [f EXCEPT !.pc = "check"])

\* retryRequest: checkCircuitBreaker(), then operation() is invoked.
Check(t) ==
    /\ Running(t)
    /\ Yielded(t)
    /\ Top(t).pc = "check"
    /\ UNCHANGED <<rsvpTable, events, organizerTable, posted, rendered, cache, now, pre, reqs, faults, calls,
                   retryTimer, timeZone, offlineVars>>
    /\ IF circuitRejects
       THEN Throw(t, Top(t), AppError("NETWORK_ERROR", 0))
       ELSE /\ circuitState' = stateAfterCheck
            /\ UNCHANGED <<failureCount, lastFailureTime, consec>>
            /\ Goto(t, [Top(t) EXCEPT !.pc = "body",
                                      !.attempts = @ + 1,
                                      !.ckState = stateAfterCheck,
                                      !.error = NoError,
                                      !.event = NoEvent,
                                      !.existing = <<>>,
                                      !.loaded = FALSE,
                                      !.latest = <<>>,
                                      !.reloaded = FALSE])

\* The wrapped operation runs up to its first await.
Body(t) ==
    /\ Running(t)
    /\ Yielded(t)
    /\ Top(t).pc = "body"
    /\ UNCHANGED <<rsvpTable, events, organizerTable, posted, rendered, cache, now, pre, faults, calls,
                   retryTimer, timeZone, offlineVars>>
    /\ LET f == Top(t) IN
       IF f.op = "createRSVP"
       THEN /\ UNCHANGED reqs
            /\ IF f.eventId = <<>> \/ f.name = <<>> \/ f.email = <<>>
               THEN Fail(t, f, AppError("VALIDATION_ERROR", 0))
               ELSE IF ~emailRegexTest(f.email)
               THEN Fail(t, f, AppError("VALIDATION_ERROR", 0))
               ELSE /\ UNCHANGED <<circuitState, failureCount, lastFailureTime, consec>>
                    /\ Call(t, [f EXCEPT !.pc = "cr_event", !.ret = NoRet],
                            NewFrame("getEvent", f.eventId, <<>>, <<>>, 0, "none"))
       ELSE IF f.op = "updateEvent" /\ changesDateOrTime(f.updates)
       THEN /\ UNCHANGED <<reqs, circuitState, failureCount, lastFailureTime, consec>>
            /\ Call(t, [f EXCEPT !.pc = "ue_event", !.ret = NoRet],
                    NewFrame("getEvent", f.eventId, <<>>, <<>>, 0, "none"))
       ELSE IF f.op = "createOrganizer"
       THEN /\ UNCHANGED <<reqs, circuitState, failureCount, lastFailureTime, consec>>
            /\ Call(t, [f EXCEPT !.pc = "co_lookup", !.ret = NoRet],
                    NewFrame("getOrganizerByEmail", <<>>, <<>>, f.email, 0, "none"))
       ELSE /\ reqs' = [reqs EXCEPT ![t] = @ + 1]
            /\ Continue(t, [f EXCEPT !.pc = "http"])

\* Whether the record a request addresses is in the store.
TargetExists(f) ==
    CASE f.op \in {"getEvent", "updateEvent"} -> f.eventId \in DOMAIN events
      [] f.op = "updateRSVP" -> f.rsvpId \in 1..Len(rsvpTable)
      [] OTHER -> TRUE

\* getEvent rethrows a 404 as NOT_FOUND_ERROR without a status
opError(op, e) ==
    IF op = "getEvent" /\ e.statusCode = 404
    THEN AppError("NOT_FOUND_ERROR", 0) ELSE e

\* The HTTP response of the pending request arrives.
Response(t, chosen, maxFaults) ==
    /\ Running(t)
    /\ Yielded(t)
    /\ Top(t).pc = "http"
    /\ chosen # 200 => faults < maxFaults
    /\ chosen = NoRecords => Top(t).op # "getEvent"
    /\ faults' = IF chosen # 200 THEN faults + 1 ELSE faults
    /\ UNCHANGED <<posted, rendered, now, pre, reqs, calls,
                   retryTimer, timeZone, offlineVars>>
    /\ LET f == Top(t)
           status == IF chosen = 200 /\ ~TargetExists(f) THEN 404 ELSE chosen
       IN
       /\ events' =
              IF status = 200 /\ f.op = "updateEvent"
              THEN [events EXCEPT ![f.eventId] =
                        patchedFields(@, f.updates, f.event, timeZone)]
              ELSE events
       /\ organizerTable' =
              IF status = 200 /\ f.op = "createOrganizer"
              THEN Append(organizerTable, [id |-> Len(organizerTable) + 1,
                                           fields |-> organizerData(f.name, f.email)])
              ELSE organizerTable
       /\ IF status = NoRecords
          THEN /\ UNCHANGED <<rsvpTable, cache>>
               /\ Fail(t, f, IF f.op \in {"getRSVPsByEvent", "getOrganizerByEmail"}
                             THEN TypeError
                             ELSE AppError("NETWORK_ERROR", 0))
          ELSE IF status # 200
          THEN /\ UNCHANGED <<rsvpTable, cache>>
               /\ Fail(t, f, opError(f.op, handleApiError(status)))
          ELSE
          CASE f.op = "getEvent" ->
                 LET event == transformEventFromAirtable(f.eventId, events[f.eventId])
                 IN IF isIncomplete(event)
                    THEN /\ UNCHANGED <<rsvpTable, cache>>
                         /\ Fail(t, f, AppError("VALIDATION_ERROR", 0))
                    ELSE /\ cache' = cacheSet(cache, eventKey(f.eventId), event, now)
                         /\ UNCHANGED rsvpTable
                         /\ Succeed(t, f, [OkRet EXCEPT !.event = event])
            [] f.op = "updateEvent" ->
                 LET event == transformEventFromAirtable(f.eventId,
                        patchedFields(events[f.eventId], f.updates, f.event, timeZone))
                 IN /\ cache' = cacheSet(cache, eventKey(f.eventId), event, now)
                    /\ UNCHANGED rsvpTable
                    /\ Succeed(t, f, [OkRet EXCEPT !.event = event])
            [] f.op = "getRSVPsByEvent" ->
                 LET rsvps == transformRSVPs(RecordsOfEvent(rsvpTable, f.eventId))
                 IN /\ cache' = cacheSet(cache, rsvpsKey(f.eventId), rsvps, now)
                    /\ UNCHANGED rsvpTable
                    /\ Succeed(t, f, [OkRet EXCEPT !.rows = rsvps])
            [] f.op = "updateRSVP" ->
                 LET updated == IF f.status = "none" THEN rsvpTable
                                ELSE [rsvpTable EXCEPT ![f.rsvpId].fields.status = f.status]
                 IN /\ rsvpTable' = updated
                    /\ UNCHANGED cache
                    /\ Succeed(t, f, [OkRet EXCEPT
                           !.row = transformRSVPFromAirtable(updated[f.rsvpId])])
            [] f.op = "createRSVP" ->
                 LET record == [id |-> Len(rsvpTable) + 1,
                                fields |-> rsvpData(f.eventId, f.name, f.email)]
                 IN /\ rsvpTable' = Append(rsvpTable, record)
                    /\ cache' = cacheDelete(cache, rsvpsKey(f.eventId))
                    /\ Succeed(t, f, [OkRet EXCEPT
                           !.row = transformRSVPFromAirtable(record)])
            [] f.op = "getOrganizerByEmail" ->
                 /\ UNCHANGED <<rsvpTable, cache>>
                 /\ Succeed(t, f, [OkRet EXCEPT !.organizers =
                        transformOrganizers(OrganizersByEmail(organizerTable, f.email))])
            [] f.op = "createOrganizer" ->
                 /\ UNCHANGED <<rsvpTable, cache>>
                 /\ Succeed(t, f, [OkRet EXCEPT !.organizer =
                        transformOrganizerFromAirtable(
                           [id |-> Len(organizerTable) + 1,
                            fields |-> organizerData(f.name, f.email)])])

\* The store applies the POST of createOrganizer or createRSVP, and its
\* response never reaches the client (connection lost, 10 s timeout): the
\* interceptor reports a network error without a status.
LostResponse(t, maxFaults) ==
    /\ Running(t)
    /\ Yielded(t)
    /\ Top(t).pc = "http"
    /\ Top(t).op \in {"createOrganizer", "createRSVP"}
    /\ faults < maxFaults
    /\ faults' = faults + 1
    /\ organizerTable' =
          IF Top(t).op = "createOrganizer"
          THEN Append(organizerTable,
                      [id |-> Len(organizerTable) + 1,
                       fields |-> organizerData(Top(t).name, Top(t).email)])
          ELSE organizerTable
    /\ rsvpTable' =
          IF Top(t).op = "createRSVP"
          THEN Append(rsvpTable,
                      [id |-> Len(rsvpTable) + 1,
                       fields |-> rsvpData(Top(t).eventId, Top(t).name, Top(t).email)])
          ELSE rsvpTable
    /\ UNCHANGED <<events, posted, rendered, cache, now, pre, reqs, calls,
                   retryTimer, timeZone, offlineVars>>
    /\ Fail(t, Top(t), handleApiError(0))

\* createRSVP or createOrganizer continues after an awaited nested call
\* has settled.
Resume(t) ==
    /\ Running(t)
    /\ Yielded(t)
    /\ Top(t).pc \in {"cr_event", "cr_rsvps1", "cr_update", "cr_rsvps2", "co_lookup",
                     "ue_event"}
    /\ UNCHANGED <<rsvpTable, events, organizerTable, posted, rendered, cache, now, pre, faults, calls,
                   retryTimer, timeZone, offlineVars>>
    /\ LET f == Top(t)
           r == f.ret
           list == NewFrame("getRSVPsByEvent", f.eventId, <<>>, <<>>, 0, "none")
       IN
       CASE f.pc = "cr_event" ->
              /\ UNCHANGED reqs
              /\ IF ~r.ok
                 THEN IF r.err.type = "NOT_FOUND_ERROR"
                      THEN Fail(t, f, AppError("NOT_FOUND_ERROR", 0))
                      ELSE Fail(t, f, r.err)
                 ELSE IF isPastEvent(r.event, now)
                 THEN Fail(t, f, AppError("VALIDATION_ERROR", 0))
                 ELSE /\ UNCHANGED <<circuitState, failureCount, lastFailureTime, consec>>
                      /\ Call(t, [f EXCEPT !.pc = "cr_rsvps1", !.event = r.event,
                                           !.ret = NoRet], list)
         [] f.pc = "cr_rsvps1" ->
              LET existingRSVPs == IF r.ok THEN r.rows ELSE <<>>
                  existingRSVP == findByEmail(existingRSVPs, f.email)
                  g == [f EXCEPT !.existing = existingRSVPs, !.loaded = r.ok,
                                 !.seen1 = f.seen, !.ret = NoRet]
              IN
              /\ UNCHANGED reqs
              /\ IF atCapacity(existingRSVPs, f.event.capacity)
                 THEN Fail(t, g, AppError("CAPACITY_EXCEEDED", 0))
                 ELSE IF existingRSVP # NoRow /\ existingRSVP.status = "confirmed"
                 THEN Fail(t, g, AppError("VALIDATION_ERROR", 0))
                 ELSE /\ UNCHANGED <<circuitState, failureCount, lastFailureTime, consec>>
                      /\ IF existingRSVP # NoRow /\ existingRSVP.status = "cancelled"
                         THEN Call(t, [g EXCEPT !.pc = "cr_update"],
                                   NewFrame("updateRSVP", <<>>, <<>>, <<>>,
                                            existingRSVP.id, "confirmed"))
                         ELSE Call(t, [g EXCEPT !.pc = "cr_rsvps2"], list)
         [] f.pc = "cr_update" ->
              /\ UNCHANGED reqs
              /\ IF r.ok THEN Succeed(t, f, r) ELSE Fail(t, f, r.err)
         [] f.pc = "cr_rsvps2" ->
              LET g == [f EXCEPT !.latest = r.rows, !.reloaded = r.ok]
              IN
              IF ~r.ok
              THEN UNCHANGED reqs /\ Fail(t, g, r.err)
              ELSE IF atCapacity(r.rows, f.event.capacity)
              THEN UNCHANGED reqs /\ Fail(t, g, AppError("CAPACITY_EXCEEDED", 0))
              ELSE /\ reqs' = [reqs EXCEPT ![t] = @ + 1]
                   /\ Continue(t, [g EXCEPT !.pc = "http"])
         [] f.pc = "co_lookup" ->
              IF ~r.ok
              THEN UNCHANGED reqs /\ Fail(t, f, r.err)
              ELSE IF hasExistingOrganizer(r.organizers)
              THEN UNCHANGED reqs
                   /\ Succeed(t, f, [OkRet EXCEPT !.organizer = r.organizers[1]])
              ELSE /\ reqs' = [reqs EXCEPT ![t] = @ + 1]
                   /\ Continue(t, [f EXCEPT !.pc = "http"])
         [] f.pc = "ue_event" ->
              IF ~r.ok
              THEN UNCHANGED reqs /\ Fail(t, f, r.err)
              ELSE /\ reqs' = [reqs EXCEPT ![t] = @ + 1]
                   /\ Continue(t, [f EXCEPT !.pc = "http", !.event = r.event])

\* The retry timer fires: retryRequest(operation, retries - 1).
Backoff(t) ==
    /\ Running(t)
    /\ Yielded(t)
    /\ Top(t).pc = "backoff"
    /\ UNCHANGED <<rsvpTable, events, organizerTable, posted, rendered, cache, now, pre, reqs, faults, calls,
                   retryTimer, timeZone, offlineVars>>
    /\ Continue(t, [Top(t) EXCEPT !.pc = "check", !.retries = @ - 1])

\* Time passes. A retry timer is set for at most maxRetryDelay
\* (calculateRetryDelay caps every delay), so it has fired by then.
Tick(step, maxNow) ==
    /\ now + step <= maxNow
    /\ \A t \in Tasks : ~Busy(t)
    /\ \A t \in Tasks : \A i \in 1..Len(stack[t]) :
          stack[t][i].pc = "backoff" => now + step - stack[t][i].armedAt <= maxRetryDelay
    /\ now' = now + step
    /\ UNCHANGED <<rsvpTable, events, organizerTable, issued, posted, rendered, cache, circuitState, failureCount,
                   lastFailureTime, stack, result, pre, reqs, consec, faults,
                   calls, scen,
                   retryTimer, timeZone, offlineVars>>


-----------------------------------------------------------------------------
(* Public calls *)

Al == <<"A","l">>

CreateRSVP(t, eventId, name, email, maxCalls) ==
    /\ Len(rsvpTable) < MaxRows
    /\ StartCall(t, "createRSVP", eventId, name, email, 0, "none", NoUpdates, maxCalls)

\* updateRSVP(rsvpId, { status: 'cancelled' }), the call handleCancelRSVP
\* makes; the list refresh that follows it there is a GetRSVPsByEvent call.
CancelRSVP(t, rsvpId, maxCalls) ==
    /\ rsvpId \in 1..Len(rsvpTable)
    /\ StartCall(t, "updateRSVP", <<>>, <<>>, <<>>, rsvpId, "cancelled", NoUpdates, maxCalls)

GetRSVPsByEvent(t, eventId, maxCalls) ==
    StartCall(t, "getRSVPsByEvent", eventId, <<>>, <<>>, 0, "none", NoUpdates, maxCalls)

GetEvent(t, eventId, maxCalls) ==
    StartCall(t, "getEvent", eventId, <<>>, <<>>, 0, "none", NoUpdates, maxCalls)

\* updateEvent(eventId, updates); its title, location and capacity go to
\* the store as they are and are left out.
UpdateEvent(t, eventId, updates, maxCalls) ==
    StartCall(t, "updateEvent", eventId, <<>>, <<>>, 0, "none", updates, maxCalls)

CreateOrganizer(t, name, email, maxCalls) ==
    StartCall(t, "createOrganizer", <<>>, name, email, 0, "none", NoUpdates, maxCalls)

\* Another session's createRSVP reaches the store: its POST /RSVPs adds a
\* confirmed row. The store is remote, so this can fall between any two
\* steps of this client.
OtherSessionRSVP(maxOther) ==
    /\ Len(rsvpTable) < MaxRows
    /\ Cardinality({i \in 1..Len(rsvpTable) :
            rsvpTable[i].fields.attendee_email = EmailO}) < maxOther
    /\ rsvpTable' = Append(rsvpTable,
            [id |-> Len(rsvpTable) + 1, fields |-> rsvpData(EV, Al, EmailO)])
    /\ UNCHANGED <<events, organizerTable, issued, posted, rendered, cache, circuitState, failureCount, lastFailureTime,
                   now, stack, result, pre, reqs, consec, faults, calls, scen,
                   retryTimer, timeZone, offlineVars>>

-----------------------------------------------------------------------------
(* createEvent and the read mapper applied to what it wrote *)

\* The form submits a payload that passed createEventSchema, and createEvent
\* builds the fields of the record it posts.
SubmitEvent(eventRequest) ==
    /\ posted.phase = "none"
    /\ createEventSchemaTest(eventRequest)
    /\ posted' = [posted EXCEPT !.phase = "written", !.request = eventRequest,
                                !.fields = eventData(eventRequest)]
    /\ UNCHANGED <<rsvpTable, events, cache, circuitState, failureCount,
                   lastFailureTime, now, stack, result, pre, reqs, consec,
                   faults, calls, scen, organizerTable, issued, rendered,
                   retryTimer, timeZone, offlineVars>>

\* The posted record comes back through transformEventFromAirtable, in a
\* browser whose time zone is utcOffset hours ahead of UTC.
ReadBackEvent(utcOffset) ==
    /\ posted.phase = "written"
    /\ posted' = [posted EXCEPT !.phase = "read", !.utcOffset = utcOffset,
                                !.event = transformEventRecord(posted.fields, utcOffset)]
    /\ UNCHANGED <<rsvpTable, events, cache, circuitState, failureCount,
                   lastFailureTime, now, stack, result, pre, reqs, consec,
                   faults, calls, scen, organizerTable, issued, rendered,
                   retryTimer, timeZone, offlineVars>>

-----------------------------------------------------------------------------
(* The AttendeeList component *)

\* The filter that keeps every RSVP.
everyRSVP(rsvps) == rsvps

\* rsvps.filter(rsvp => rsvp.status === 'confirmed')
confirmedRSVPs(rsvps) == SelectSeq(rsvps, LAMBDA rsvp : rsvp.status = "confirmed")

NoView == [loading |-> FALSE, rsvpCount |-> 0, capacity |-> 0, spotsRemaining |-> 0,
           items |-> <<>>, cancelButtons |-> {}]

\* What the component shows: the loading placeholder, or the header
\* "Attendees (rsvpCount / capacity)", "spotsRemaining spots remaining", one
\* item per listed RSVP and the items that carry a cancel button.
AttendeeList(event, rsvps, hasOnCancelRSVP, isLoading, showCancelActions) ==
    IF isLoading THEN [NoView EXCEPT !.loading = TRUE]
    ELSE LET listed == confirmedRSVPs(rsvps)
             rsvpCount == Len(listed)
         IN [loading |-> FALSE,
             rsvpCount |-> rsvpCount,
             capacity |-> event.capacity,
             spotsRemaining |-> event.capacity - rsvpCount,
             items |-> [i \in 1..Len(listed) |-> listed[i].id],
             cancelButtons |-> IF showCancelActions /\ hasOnCancelRSVP
                               THEN {listed[i].id : i \in 1..Len(listed)}
                               ELSE {}]

NoProps == [event |-> NoEvent, rsvps |-> <<>>, hasOnCancelRSVP |-> FALSE,
            isLoading |-> FALSE, showCancelActions |-> FALSE]
NoRender == [mounted |-> FALSE, props |-> NoProps, view |-> NoView]

RSVPLists ==
    UNION {{[i \in 1..n |-> [NoRow EXCEPT !.id = i, !.eventId = EV, !.status = st[i]]] :
                st \in [1..n -> {"confirmed", "cancelled"}]} : n \in 0..MaxAttendees}

RenderedEvents == {[NoEvent EXCEPT !.id = EV, !.capacity = c] : c \in 1..MaxCapacity}

\* React renders the component with new props.
Render(event, rsvps, hasOnCancelRSVP, isLoading, showCancelActions) ==
    /\ rendered' = [mounted |-> TRUE,
                    props |-> [event |-> event, rsvps |-> rsvps,
                               hasOnCancelRSVP |-> hasOnCancelRSVP,
                               isLoading |-> isLoading,
                               showCancelActions |-> showCancelActions],
                    view |-> AttendeeList(event, rsvps, hasOnCancelRSVP,
                                          isLoading, showCancelActions)]
    /\ UNCHANGED <<rsvpTable, events, cache, circuitState, failureCount,
                   lastFailureTime, now, stack, result, pre, reqs, consec,
                   faults, calls, scen, organizerTable, issued, posted,
                   retryTimer, timeZone, offlineVars>>

-----------------------------------------------------------------------------
(* calculateRetryDelay *)

\* Math.random() is k / JitterSteps for some k in 0..JitterSteps-1, and a
\* delay is held in units of 1 / Scale ms, so that the jitter is exact.
Scale == 10 * JitterSteps

RECURSIVE pow2(_)
pow2(n) == IF n = 0 THEN 1 ELSE 2 * pow2(n - 1)

Max(a, b) == IF a >= b THEN a ELSE b
Min(a, b) == IF a <= b THEN a ELSE b

\* delay before jitter: baseDelay * Math.pow(2, attempt), and Math.max with
\* 5000 for a rate limit error
delayBeforeJitter(type, attempt) ==
    IF type = "RATE_LIMIT_ERROR"
    THEN Max(retryDelay * pow2(attempt), rateLimitDelay)
    ELSE retryDelay * pow2(attempt)

\* The delay without its cap.
uncappedRetryDelay(type, attempt, k) ==
    delayBeforeJitter(type, attempt) * Scale
        + k * 3 * delayBeforeJitter(type, attempt)

calculateRetryDelay(type, attempt, k) ==
    LET delay == delayBeforeJitter(type, attempt)
        jitter == k * 3 * delay
    IN Min(delay * Scale + jitter, maxRetryDelay * Scale)

NoTimer == [set |-> FALSE, type |-> "NONE", attempt |-> 0, random |-> 0, delay |-> 0]

\* retryRequest asks for the delay of a retry after a retryable error.
CalculateRetryDelay(type, attempt, k) ==
    /\ retryTimer' = [set |-> TRUE, type |-> type, attempt |-> attempt,
                      random |-> k,
                      delay |-> calculateRetryDelay(type, attempt, k)]
    /\ UNCHANGED <<serviceVars, offlineVars>>

-----------------------------------------------------------------------------
(* OfflineHandler *)

NewItem(id) == [id |-> id, retryCount |-> 0, maxRetries |-> offlineMaxRetries]

InitOffline ==
    /\ queue = <<>>
    /\ isProcessing = FALSE
    /\ itemsToProcess = <<>>
    /\ timers = 0
    /\ onLine = TRUE
    /\ executed = [id \in 1..(MaxQueued + 1) |-> 0]
    /\ queued = 0
    /\ late = {}
    /\ dropped = {}

\* item.operation() is invoked and runs up to its first await
Invoke(item) == executed' = [executed EXCEPT ![item.id] = @ + 1]

\* processQueue() called when the queue holds q: it returns at once, or
\* takes the snapshot and starts on its first item.
processQueue(q) ==
    IF isProcessing \/ q = <<>>
    THEN /\ queue' = q
         /\ UNCHANGED <<isProcessing, itemsToProcess, executed>>
    ELSE /\ isProcessing' = TRUE
         /\ itemsToProcess' = q
         /\ queue' = <<>>
         /\ Invoke(Head(q))

\* The requeue test that allows one retry more.
mayRetryOnceMore(item) == item.retryCount <= item.maxRetries

\* item.retryCount < item.maxRetries
mayRetry(item) == item.retryCount < item.maxRetries

\* The timers pending after a drain that leaves q in the queue, without
\* the one that processQueue sets.
timersUnchanged(q, n) == n

\* if (this.queue.length > 0) setTimeout(() => this.processQueue(), ...)
timersAfterDrain(q, n) == IF q # <<>> THEN n + 1 ELSE n

QueueOperation ==
    /\ queued < MaxQueued
    /\ queued' = queued + 1
    /\ late' = IF isProcessing THEN late \cup {queued + 1} ELSE late
    /\ IF onLine
       THEN processQueue(Append(queue, NewItem(queued + 1)))
       ELSE /\ queue' = Append(queue, NewItem(queued + 1))
            /\ UNCHANGED <<isProcessing, itemsToProcess, executed>>
    /\ UNCHANGED <<timers, onLine, dropped, retryTimer, serviceVars>>

\* The browser comes back online: the 'online' listener runs processQueue.
Online ==
    /\ ~onLine
    /\ onLine' = TRUE
    /\ processQueue(queue)
    /\ UNCHANGED <<timers, queued, late, dropped, retryTimer, serviceVars>>

\* The browser goes offline: handleOffline only logs.
Offline ==
    /\ onLine
    /\ onLine' = FALSE
    /\ UNCHANGED <<queue, isProcessing, itemsToProcess, timers, executed,
                   queued, late, dropped, retryTimer, serviceVars>>

\* The timer set at the end of a drain fires.
TimerFires ==
    /\ timers > 0
    /\ timers' = timers - 1
    /\ processQueue(queue)
    /\ UNCHANGED <<onLine, queued, late, dropped, retryTimer, serviceVars>>

\* The operation processQueue awaits settles; the loop goes on to the next
\* item of the snapshot or ends the drain.
Settle(ok) ==
    /\ isProcessing
    /\ itemsToProcess # <<>>
    /\ LET item == Head(itemsToProcess)
           failed == [item EXCEPT !.retryCount = @ + 1]
           rest == Tail(itemsToProcess)
           q == IF ~ok /\ mayRetry(failed) THEN Append(queue, failed) ELSE queue
       IN /\ queue' = q
          /\ dropped' = IF ~ok /\ ~mayRetry(failed)
                        THEN dropped \cup {item.id} ELSE dropped
          /\ itemsToProcess' = rest
          /\ IF rest # <<>>
             THEN /\ Invoke(Head(rest))
                  /\ UNCHANGED <<isProcessing, timers>>
             ELSE /\ isProcessing' = FALSE
                  /\ timers' = timersAfterDrain(q, timers)
                  /\ UNCHANGED executed
    /\ UNCHANGED <<onLine, queued, late, retryTimer, serviceVars>>

-----------------------------------------------------------------------------
(* Specifications *)

Init ==
    /\ rsvpTable = <<>>
    /\ \E c \in 1..MaxCapacity :
          events = [id \in {EV} |-> StoredEvent(c, FutureTime)]
    /\ cache = [k \in CacheKeys |-> NoEntry]
    /\ circuitState = "CLOSED"
    /\ failureCount = 0
    /\ lastFailureTime = 0
    /\ now = 0
    /\ stack = [t \in Tasks |-> <<>>]
    /\ result = [t \in Tasks |-> IdleResult]
    /\ pre = [t \in Tasks |-> [rsvpTable |-> <<>>, events |-> events,
                               cache |-> [k \in CacheKeys |-> NoEntry],
                               faults |-> 0, circuitState |-> "CLOSED",
                               past |-> FALSE]]
    /\ reqs = [t \in Tasks |-> 0]
    /\ consec = 0
    /\ faults = 0
    /\ calls = 0
    /\ organizerTable = <<>>
    /\ issued = [e \in OrganizerEmails |-> {}]
    /\ posted = NoPost
    /\ rendered = NoRender
    /\ retryTimer = NoTimer
    /\ timeZone = 0
    /\ InitOffline
    /\ scen = IF events[EV].capacity = 1 THEN 0 ELSE -1

\* One client whose operations run one at a time, on the RSVPs of one event.
Next ==
    \/ \E e \in GoodEmails : CreateRSVP(1, EV, Al, e, MaxCalls)
    \/ \E id \in 1..MaxRows : CancelRSVP(1, id, MaxCalls)
    \/ GetRSVPsByEvent(1, EV, MaxCalls)
    \/ Entry(1)
    \/ Check(1)
    \/ Body(1)
    \/ \E st \in {200, 403, 503} : Response(1, st, MaxFaults)
    \/ Resume(1)
    \/ Backoff(1)
    \/ Tick(ttl, MaxNow)

Spec == Init /\ [][Next]_vars

\* The resilience wrapper seen by one client: calls that fail locally, calls
\* that reach the store, HTTP errors of both kinds, and time in half
\* recovery timeouts.
InitB ==
    /\ rsvpTable = << [id |-> 1, fields |-> rsvpData(EV, Al, EmailA)] >>
    /\ events = [id \in {EV} |-> StoredEvent(MaxCapacity, FutureTime)]
    /\ cache = [k \in CacheKeys |-> NoEntry]
    /\ circuitState = "CLOSED"
    /\ failureCount = 0
    /\ lastFailureTime = 0
    /\ now = 0
    /\ stack = [t \in Tasks |-> <<>>]
    /\ result = [t \in Tasks |-> IdleResult]
    /\ pre = [t \in Tasks |-> [rsvpTable |-> <<>>, events |-> events,
                               cache |-> [k \in CacheKeys |-> NoEntry],
                               faults |-> 0, circuitState |-> "CLOSED",
                               past |-> FALSE]]
    /\ reqs = [t \in Tasks |-> 0]
    /\ consec = 0
    /\ faults = 0
    /\ calls = 0
    /\ organizerTable = <<>>
    /\ issued = [e \in OrganizerEmails |-> {}]
    /\ posted = NoPost
    /\ rendered = NoRender
    /\ retryTimer = NoTimer
    /\ timeZone = 0
    /\ InitOffline
    /\ scen = -1

InvalidRSVPs ==
    {[eventId |-> EV, name |-> Al, email |-> e] : e \in BadEmails}
    \cup {[eventId |-> EV, name |-> <<>>, email |-> EmailA],
          [eventId |-> <<>>, name |-> Al, email |-> EmailA],
          [eventId |-> <<>>, name |-> <<>>, email |-> BadMail]}

NextB ==
    \/ \E id \in BadIds \cup {EV, EV2} : GetEvent(1, id, MaxCallsB)
    \/ \E in \in InvalidRSVPs : CreateRSVP(1, in.eventId, in.name, in.email, MaxCallsB)
    \/ CreateRSVP(1, EV2, Al, EmailB, MaxCallsB)
    \/ CancelRSVP(1, 1, MaxCallsB)
    \/ Entry(1)
    \/ Check(1)
    \/ Body(1)
    \/ \E st \in {200, 403, 503} : Response(1, st, MaxFaultsB)
    \/ Resume(1)
    \/ Backoff(1)
    \/ Tick(recoveryTimeout \div 2, MaxNowB)

SpecB == InitB /\ [][NextB]_vars

\* createRSVP against an event that is upcoming or about to be over, a
\* store that already holds RSVPs, requests that fail, and another session
\* writing to the same store.
StoredRSVP(i, email, status) ==
    [id |-> i, fields |-> [rsvpData(EV, Al, email) EXCEPT !.status = status]]

InitialTables ==
    { <<>>,
      << StoredRSVP(1, EmailA, "confirmed") >>,
      << StoredRSVP(1, EmailA, "cancelled") >>,
      << StoredRSVP(1, EmailA, "confirmed"), StoredRSVP(2, EmailB, "confirmed") >>,
      << StoredRSVP(1, EmailA, "cancelled"), StoredRSVP(2, EmailB, "confirmed") >> }

InitD ==
    /\ rsvpTable \in InitialTables
    /\ \E c \in 1..MaxCapacity : \E at \in {ttl, FutureTime} :
          events = [id \in {EV} |-> StoredEvent(c, at)]
    /\ cache = [k \in CacheKeys |-> NoEntry]
    /\ circuitState = "CLOSED"
    /\ failureCount = 0
    /\ lastFailureTime = 0
    /\ now = 0
    /\ stack = [t \in Tasks |-> <<>>]
    /\ result = [t \in Tasks |-> IdleResult]
    /\ pre = [t \in Tasks |-> [rsvpTable |-> <<>>, events |-> events,
                               cache |-> [k \in CacheKeys |-> NoEntry],
                               faults |-> 0, circuitState |-> "CLOSED",
                               past |-> FALSE]]
    /\ reqs = [t \in Tasks |-> 0]
    /\ consec = 0
    /\ faults = 0
    /\ calls = 0
    /\ organizerTable = <<>>
    /\ issued = [e \in OrganizerEmails |-> {}]
    /\ posted = NoPost
    /\ rendered = NoRender
    /\ retryTimer = NoTimer
    /\ timeZone = 0
    /\ InitOffline
    /\ scen = -1

NextD ==
    \/ \E e \in {EmailA, EmailB} : CreateRSVP(1, EV, Al, e, MaxCallsD)
    \/ OtherSessionRSVP(MaxOther)
    \/ Entry(1)
    \/ Check(1)
    \/ Body(1)
    \/ \E st \in {200, 503} : Response(1, st, MaxFaultsD)
    \/ Resume(1)
    \/ Backoff(1)
    \/ Tick(ttl, MaxNowD)

SpecD == InitD /\ [][NextD]_vars

\* createOrganizer called again and again by one client, with failed
\* attempts, replies that lack their records and responses that are lost
\* after the store has applied the write.
NextO ==
    \/ \E e \in OrganizerEmails : CreateOrganizer(1, Al, e, MaxCallsO)
    \/ Entry(1)
    \/ Check(1)
    \/ Body(1)
    \/ \E st \in {200, NoRecords, 503} : Response(1, st, MaxFaultsO)
    \/ LostResponse(1, MaxFaultsO)
    \/ Resume(1)
    \/ Backoff(1)
    \/ Tick(maxRetryDelay, MaxNowO)

SpecO == Init /\ [][NextO]_vars

\* Event payloads through createEvent's write mapping and back through the
\* read mapper, in time zones on both sides of UTC.
NextE ==
    \/ \E eventRequest \in EventRequests : SubmitEvent(eventRequest)
    \/ \E utcOffset \in (-MaxUtcOffset)..MaxUtcOffset : ReadBackEvent(utcOffset)

SpecE == Init /\ [][NextE]_vars

\* AttendeeList rendered with every combination of props.
NextV ==
    \E event \in RenderedEvents, rsvps \in RSVPLists,
       hasOnCancelRSVP \in BOOLEAN, isLoading \in BOOLEAN,
       showCancelActions \in BOOLEAN :
        Render(event, rsvps, hasOnCancelRSVP, isLoading, showCancelActions)

SpecV == Init /\ [][NextV]_vars

\* createRSVP under every kind of HTTP failure the interceptor tells apart;
\* status 0 is a request that got no response (connection failure, timeout).
Statuses == {200, 0, 400, 403, 404, 429, 500}

NextR ==
    \/ \E e \in {EmailA, EmailB} : CreateRSVP(1, EV, Al, e, MaxCallsR)
    \/ Entry(1)
    \/ Check(1)
    \/ Body(1)
    \/ \E st \in Statuses : Response(1, st, MaxFaultsR)
    \/ Resume(1)
    \/ Backoff(1)
    \/ Tick(maxRetryDelay, MaxNowR)

SpecR == InitD /\ [][NextR]_vars

\* createRSVP calls that fail without a request of their own (invalid
\* input, malformed event link, past or full event, duplicate), one after
\* another, with reads served by the store or by the cache.
InvalidId == <<"i","n","v","a","l","i","d","-","i","d">>

NextF ==
    \/ \E id \in {EV, InvalidId} : \E e \in {EmailA, BadMail} :
            CreateRSVP(1, id, Al, e, MaxCallsF)
    \/ Entry(1)
    \/ Check(1)
    \/ Body(1)
    \/ \E st \in {200, 503} : Response(1, st, MaxFaultsF)
    \/ Resume(1)
    \/ Backoff(1)
    \/ Tick(ttl, MaxNowF)

SpecF == InitD /\ [][NextF]_vars

\* getEvent and updateEvent on one event whose record is complete or lacks
\* its title, its date or its embedded time, in time zones on both sides
\* of UTC.
EventRecords ==
    {StoredEvent(MaxCapacity, FutureTime),
     [StoredEvent(MaxCapacity, FutureTime) EXCEPT !.title = <<>>],
     [StoredEvent(MaxCapacity, FutureTime) EXCEPT !.date = <<>>],
     [StoredEvent(MaxCapacity, FutureTime) EXCEPT !.description = <<"H","i">>]}

EventUpdates ==
    {NoUpdates,
     [NoUpdates EXCEPT !.time = <<"1","4",":","4","5">>],
     [NoUpdates EXCEPT !.time = <<"2","3",":","3","0">>],
     [NoUpdates EXCEPT !.date = <<"2","0","2","7","-","0","4","-","0","1">>],
     [NoUpdates EXCEPT !.description = <<"H","o">>]}

InitU ==
    /\ rsvpTable = <<>>
    /\ \E fields \in EventRecords : events = [id \in {EV} |-> fields]
    /\ cache = [k \in CacheKeys |-> NoEntry]
    /\ circuitState = "CLOSED"
    /\ failureCount = 0
    /\ lastFailureTime = 0
    /\ now = 0
    /\ stack = [t \in Tasks |-> <<>>]
    /\ result = [t \in Tasks |-> IdleResult]
    /\ pre = [t \in Tasks |-> [rsvpTable |-> <<>>, events |-> events,
                               cache |-> [k \in CacheKeys |-> NoEntry],
                               faults |-> 0, circuitState |-> "CLOSED",
                               past |-> FALSE]]
    /\ reqs = [t \in Tasks |-> 0]
    /\ consec = 0
    /\ faults = 0
    /\ calls = 0
    /\ organizerTable = <<>>
    /\ issued = [e \in OrganizerEmails |-> {}]
    /\ posted = NoPost
    /\ rendered = NoRender
    /\ retryTimer = NoTimer
    /\ timeZone \in (-MaxUtcOffset)..MaxUtcOffset
    /\ InitOffline
    /\ scen = -1

NextU ==
    \/ GetEvent(1, EV, MaxCallsU)
    \/ \E updates \in EventUpdates : UpdateEvent(1, EV, updates, MaxCallsU)
    \/ Entry(1)
    \/ Check(1)
    \/ Body(1)
    \/ \E st \in {200, 503} : Response(1, st, MaxFaultsU)
    \/ Resume(1)
    \/ Backoff(1)
    \/ Tick(ttl, MaxNowU)

SpecU == InitU /\ [][NextU]_vars

\* createRSVP on an event without RSVPs, with inserts whose response is
\* lost after the store has committed the row.
NextL ==
    \/ \E e \in {EmailA, EmailB} : CreateRSVP(1, EV, Al, e, MaxCallsL)
    \/ Entry(1)
    \/ Check(1)
    \/ Body(1)
    \/ \E st \in {200, 503} : Response(1, st, MaxFaultsL)
    \/ LostResponse(1, MaxFaultsL)
    \/ Resume(1)
    \/ Backoff(1)
    \/ Tick(maxRetryDelay, MaxNowL)

SpecL == Init /\ [][NextL]_vars

\* Half-open trials: reads and createRSVP calls on an event with one RSVP,
\* input that fails validation, HTTP errors that open the circuit, and
\* time in half recovery timeouts.
NextH ==
    \/ GetEvent(1, EV, MaxCallsH)
    \/ \E e \in {EmailA, EmailB, BadMail} : CreateRSVP(1, EV, Al, e, MaxCallsH)
    \/ Entry(1)
    \/ Check(1)
    \/ Body(1)
    \/ \E st \in {200, 503} : Response(1, st, MaxFaultsH)
    \/ Resume(1)
    \/ Backoff(1)
    \/ Tick(recoveryTimeout \div 2, MaxNowH)

SpecH == InitB /\ [][NextH]_vars

\* calculateRetryDelay for the errors retryRequest retries, at every retry
\* index and jitter.
NextT ==
    \E type \in {"RATE_LIMIT_ERROR", "NETWORK_ERROR"}, attempt \in 0..MaxAttempt,
       k \in 0..(JitterSteps - 1) :
        CalculateRetryDelay(type, attempt, k)

SpecT == Init /\ [][NextT]_vars

\* The offline queue: operations queued online and offline, connectivity
\* coming and going, operations that succeed or fail.
NextQ ==
    \/ QueueOperation
    \/ Online
    \/ Offline
    \/ TimerFires
    \/ \E ok \in BOOLEAN : Settle(ok)

SpecQ == InitB /\ [][NextQ]_vars

\* The same with what the event loop guarantees: a pending timer fires, and
\* the operation being awaited settles (its HTTP calls time out after 10 s).
SpecQLive ==
    /\ SpecQ
    /\ WF_vars(TimerFires)
    /\ WF_vars(\E ok \in BOOLEAN : Settle(ok))

\* Two pending async operations of the one service instance.
NextC ==
    \/ \E t \in Tasks : CancelRSVP(t, 1, MaxCallsC)
    \/ \E t \in Tasks : Entry(t)
    \/ \E t \in Tasks : Check(t)
    \/ \E t \in Tasks : Body(t)
    \/ \E t \in Tasks : \E st \in {200, 503} : Response(t, st, MaxFaultsC)
    \/ \E t \in Tasks : Backoff(t)
    \/ Tick(recoveryTimeout, MaxNowC)

SpecC == InitB /\ [][NextC]_vars


-----------------------------------------------------------------------------
(* Observations used by the claims *)

ConfirmedInStore(eventId) ==
    Len(SelectSeq(RecordsOfEvent(rsvpTable, eventId),
                  LAMBDA r : r.fields.status = "confirmed"))

Done(t, op) == result[t].phase = "done" /\ result[t].op = op

\* No HTTP error was injected while the latest call of t ran, and the
\* circuit was CLOSED when it began.
Undisturbed(t) == faults = pre[t].faults /\ pre[t].circuitState = "CLOSED"

\* Indexes of the rows of `table` for eventId whose email equals `email`
\* ignoring case.
RowsFor(table, eventId, email) ==
    {i \in 1..Len(table) :
        /\ table[i].fields.event_id = eventId
        /\ toLowerCase(table[i].fields.attendee_email) = toLowerCase(email)}

-----------------------------------------------------------------------------
(* Claims *)

\* C1: with one client running one operation at a time, every successful
\* createRSVP (insert or reactivation) leaves the store's count of confirmed
\* RSVPs of the event at most the event's capacity.
C1_ConfirmedWithinCapacity ==
    (Done(1, "createRSVP") /\ result[1].ok)
        => ConfirmedInStore(EV) <= events[EV].capacity

\* C2: on an event with capacity 1 and no RSVPs, createRSVP(A) succeeds with
\* a confirmed RSVP, createRSVP(B) then fails with CAPACITY_EXCEEDED, and
\* after A's RSVP is cancelled createRSVP(B) succeeds.
C2_CancelFreesSpot ==
    result[1].phase = "done" =>
        /\ scen = 1 => (result[1].ok /\ result[1].row.status = "confirmed")
        /\ scen = 2 => (~result[1].ok /\ result[1].err.type = "CAPACITY_EXCEEDED")
        /\ scen = 4 => result[1].ok

\* C3: a createRSVP for an email whose RSVP for the event is cancelled, on an
\* event that is not full, succeeds by reactivating that row: it returns the
\* row's identifier and the table does not grow.
C3_ReactivationAfterCancel ==
    \A i \in 1..Len(pre[1].rsvpTable) :
        ( /\ Done(1, "createRSVP")
          /\ Undisturbed(1)
          /\ RowsFor(pre[1].rsvpTable, result[1].eventId, result[1].email) = {i}
          /\ pre[1].rsvpTable[i].fields.status = "cancelled"
          /\ ConfirmedIn(pre[1].rsvpTable, result[1].eventId) < events[EV].capacity )
        => /\ result[1].ok
           /\ result[1].row.id = pre[1].rsvpTable[i].id
           /\ rsvpTable[i].fields.status = "confirmed"
           /\ Len(rsvpTable) = Len(pre[1].rsvpTable)

\* C4: the store never holds two RSVP rows of one event whose emails are
\* equal ignoring letter case.
C4_NoDuplicateRows ==
    \A i, j \in 1..Len(rsvpTable) :
        ( /\ i # j
          /\ rsvpTable[i].fields.event_id = rsvpTable[j].fields.event_id )
        => toLowerCase(rsvpTable[i].fields.attendee_email)
               # toLowerCase(rsvpTable[j].fields.attendee_email)

\* C5: createRSVP treats emails that differ only in case as one attendee.
\* When the RSVP list it loaded for the event (not full) holds a confirmed
\* RSVP for a case variant of the email, the call fails with VALIDATION_ERROR
\* and inserts nothing; when the list holds only a cancelled one, that row is
\* reactivated; and a row it inserts stores the email lower-cased.
C5_CaseInsensitiveDuplicates ==
    (Done(1, "createRSVP") /\ Undisturbed(1) /\ result[1].loaded) =>
        LET list == result[1].existing
            same == {k \in 1..Len(list) :
                        toLowerCase(list[k].attendeeEmail) = toLowerCase(result[1].email)}
            notFull == Len(confirmedOf(list)) < events[EV].capacity
        IN /\ (notFull /\ \E k \in same : list[k].status = "confirmed")
                => /\ ~result[1].ok
                   /\ result[1].err.type = "VALIDATION_ERROR"
                   /\ rsvpTable = pre[1].rsvpTable
           /\ (notFull /\ same # {} /\ \A k \in same : list[k].status = "cancelled")
                => /\ result[1].ok
                   /\ result[1].row.id \in {list[k].id : k \in same}
                   /\ Len(rsvpTable) = Len(pre[1].rsvpTable)
           /\ Len(rsvpTable) > Len(pre[1].rsvpTable)
                => rsvpTable[Len(rsvpTable)].fields.attendee_email
                       = toLowerCase(result[1].email)


\* The record-identifier pattern as the interface states it: 'rec' followed
\* by 14 alphanumeric characters, 17 characters in all.
MatchesRecordId(s) ==
    /\ Len(s) = 17
    /\ s[1] = "r" /\ s[2] = "e" /\ s[3] = "c"
    /\ \A k \in 4..17 : s[k] \in Alnum

Blank(s) == \A k \in 1..Len(s) : s[k] \in {" ", "\t", "\n", "\r"}

CheckStep(t) == Running(t) /\ Top(t).pc = "check" /\ stack'[t] # stack[t]

RejectedAtCheck(t) ==
    /\ Len(stack'[t]) = Len(stack[t]) - 1
    /\ IF Len(stack[t]) = 1
       THEN /\ result'[t].phase = "done"
            /\ ~result'[t].ok
            /\ result'[t].err.type = "NETWORK_ERROR"
            /\ result'[t].attempts = Top(t).attempts
       ELSE LET p == stack'[t][Len(stack'[t])]
            IN p.ret.set /\ ~p.ret.ok /\ p.ret.err.type = "NETWORK_ERROR"
    /\ reqs' = reqs
    /\ rsvpTable' = rsvpTable

AdmittedAsTrial(t) ==
    /\ Len(stack'[t]) = Len(stack[t])
    /\ stack'[t][Len(stack'[t])].pc = "body"
    /\ stack'[t][Len(stack'[t])].attempts = Top(t).attempts + 1
    /\ circuitState' = "HALF_OPEN"

\* C7: after 5 consecutive failed attempts the circuit is OPEN; while it is,
\* a wrapper call (or retry) that starts less than 60 s after the last
\* recorded failure fails at once with NETWORK_ERROR without invoking the
\* wrapped operation, and one that starts 60 s or more after it is let
\* through as a trial.
C7_OpenCircuitFailsFast ==
    [][ /\ (consec' >= 5 /\ now' - lastFailureTime' < 60000)
            => circuitState' = "OPEN"
        /\ \A t \in Tasks :
            (CheckStep(t) /\ circuitState = "OPEN")
                => IF now - lastFailureTime < 60000
                   THEN RejectedAtCheck(t)
                   ELSE AdmittedAsTrial(t) ]_vars

C7_Witness ==
    /\ circuitState = "OPEN"
    /\ consec >= 5
    /\ now - lastFailureTime = 30000
    /\ result[1].phase = "done"
    /\ result[1].op = "updateRSVP"
    /\ result[1].err.type = "NETWORK_ERROR"
    /\ result[1].attempts = 0
    /\ reqs[1] = 0

\* C8: while the circuit is HALF_OPEN at most one admitted request is in
\* flight: a second call is not executed against the store before the trial
\* has settled the circuit state.
InFlightTrials ==
    {t \in Tasks : Running(t) /\ Top(t).pc = "http" /\ Top(t).ckState = "HALF_OPEN"}

C8_SingleTrialWhileHalfOpen ==
    circuitState = "HALF_OPEN" => Cardinality(InFlightTrials) <= 1

\* C9 as stated: one wrapper call invokes the wrapped operation at most 3
\* times.
C9_AtMostThreeInvocations ==
    \A t \in Tasks :
        /\ result[t].attempts <= 3
        /\ \A i \in 1..Len(stack[t]) : stack[t][i].attempts <= 3

\* C9 amended: one wrapper call invokes the wrapped operation at most 4
\* times, the first attempt plus at most 3 retries.
C9_AtMostFourInvocations ==
    \A t \in Tasks :
        /\ result[t].attempts <= 4
        /\ \A i \in 1..Len(stack[t]) : stack[t][i].attempts <= 4

C9_Witness ==
    /\ Running(1)
    /\ Top(1).attempts = 4
    /\ Top(1).retries = 0
    /\ Top(1).pc = "http"

\* C10: createRSVP with a missing eventId, attendeeName or attendeeEmail, or
\* with a malformed attendeeEmail, fails with VALIDATION_ERROR, sends no
\* request, is not retried and leaves the store and the cache unchanged.
InvalidRSVPInput(r) ==
    \/ r.eventId = <<>> \/ r.name = <<>> \/ r.email = <<>>
    \/ ~emailRegexTest(r.email)

C10_InvalidRSVPFailsValidation ==
    \A t \in Tasks :
        (Done(t, "createRSVP") /\ InvalidRSVPInput(result[t]))
            => /\ ~result[t].ok
               /\ result[t].err.type = "VALIDATION_ERROR"
               /\ reqs[t] = 0
               /\ result[t].attempts <= 1
               /\ rsvpTable = pre[t].rsvpTable
               /\ cache = pre[t].cache

\* Rows of a table that this client's calls can have written.
OwnRows(table) == SelectSeq(table, LAMBDA r : r.fields.attendee_email # EmailO)

C12_FullEventRefuses ==
    ( /\ Done(1, "createRSVP")
      /\ \/ result[1].loaded
             /\ Len(confirmedOf(result[1].existing)) >= events[EV].capacity
         \/ result[1].reloaded
             /\ Len(confirmedOf(result[1].latest)) >= events[EV].capacity )
        => /\ ~result[1].ok
           /\ result[1].err.type = "CAPACITY_EXCEEDED"
           /\ OwnRows(rsvpTable) = OwnRows(pre[1].rsvpTable)

C12_Witness ==
    /\ Done(1, "createRSVP")
    /\ result[1].loaded
    /\ Len(confirmedOf(result[1].existing)) = events[EV].capacity
    /\ findByEmail(result[1].existing, result[1].email) # NoRow
    /\ findByEmail(result[1].existing, result[1].email).status = "cancelled"
    /\ result[1].err.type = "CAPACITY_EXCEEDED"

\* C13: after a successful write of this client, its next read of the same
\* event does not return a value cached before that write. With this client
\* the only writer, a list served from the cache equals the store's list.
C13_ReadsAfterWritesAreFresh ==
    (Done(1, "getRSVPsByEvent") /\ result[1].ok /\ reqs[1] = 0)
        => result[1].rows = transformRSVPs(RecordsOfEvent(rsvpTable, EV))

\* C14: every rejection a public operation delivers to its caller is an
\* AppError of one of the five types.
C14_RejectionsAreAppErrors ==
    \A t \in Tasks :
        (result[t].phase = "done" /\ ~result[t].ok)
            => result[t].err.type \in
                  {"NETWORK_ERROR", "VALIDATION_ERROR", "RATE_LIMIT_ERROR",
                   "NOT_FOUND_ERROR", "CAPACITY_EXCEEDED"}

\* C15: every payload that passed the form schema comes back from the read
\* mapper, applied to the fields createEvent wrote for it, equal to the
\* payload in title, description, date, time, location, capacity and
\* organizerId.
C15_EventRoundTrips ==
    posted.phase = "read" => posted.event = posted.request

\* C16: whatever createOrganizer calls one client has made, retried
\* attempts included, the store holds at most one organizer row per email
\* and the successful calls with one email have all returned the same id.
C16_CreateOrganizerIdempotent ==
    \A e \in OrganizerEmails :
        /\ Cardinality({i \in 1..Len(organizerTable) :
                organizerTable[i].fields.email = e}) <= 1
        /\ Cardinality(issued[e]) <= 1

\* C16 witness: a later createOrganizer call succeeded on a retried attempt,
\* after a failed attempt whose write the store had applied, and returned
\* the row of its email.
C16_Witness ==
    /\ Done(1, "createOrganizer")
    /\ result[1].ok
    /\ result[1].attempts >= 2
    /\ calls >= 2
    /\ reqs[1] = 3
    /\ Len(organizerTable) >= 1
    /\ issued[result[1].email] = {result[1].organizer.id}

\* C17: every email in the Organizers table was lower-cased and trimmed
\* before it was written, and a createOrganizer call that succeeded has
\* returned the one row of the lower-cased, trimmed form of its email.
C17_OrganizerEmailsNormalized ==
    /\ \A i \in 1..Len(organizerTable) :
          organizerTable[i].fields.email
              = trim(toLowerCase(organizerTable[i].fields.email))
    /\ (Done(1, "createOrganizer") /\ result[1].ok)
          => result[1].organizer.email = trim(toLowerCase(result[1].email))

\* Ids of the RSVPs of a list that have the given status.
IdsWithStatus(rsvps, status) ==
    {rsvps[i].id : i \in {k \in 1..Len(rsvps) : rsvps[k].status = status}}

\* C18: a rendered attendee list that is not the loading placeholder shows
\* the number of confirmed RSVPs as its count, capacity minus that number as
\* spots remaining, lists exactly the confirmed RSVPs, and puts cancel
\* buttons on listed RSVPs only; no cancelled RSVP is counted or listed.
C18_AttendeeListShowsConfirmedOnly ==
    (rendered.mounted /\ ~rendered.props.isLoading) =>
        LET confirmed == IdsWithStatus(rendered.props.rsvps, "confirmed")
            cancelled == IdsWithStatus(rendered.props.rsvps, "cancelled")
            view == rendered.view
        IN /\ view.rsvpCount = Cardinality(confirmed)
           /\ view.spotsRemaining = rendered.props.event.capacity - Cardinality(confirmed)
           /\ Range(view.items) = confirmed
           /\ Len(view.items) = Cardinality(confirmed)
           /\ Range(view.items) \cap cancelled = {}
           /\ view.cancelButtons \subseteq confirmed
           /\ (rendered.props.showCancelActions /\ rendered.props.hasOnCancelRSVP)
                 => view.cancelButtons = confirmed

\* C18 witness: a list holding confirmed and cancelled RSVPs is rendered
\* with cancel actions, and shows the confirmed ones with their buttons.
C18_Witness ==
    /\ rendered.mounted
    /\ ~rendered.props.isLoading
    /\ rendered.props.showCancelActions /\ rendered.props.hasOnCancelRSVP
    /\ Cardinality(IdsWithStatus(rendered.props.rsvps, "confirmed")) = 2
    /\ Cardinality(IdsWithStatus(rendered.props.rsvps, "cancelled")) = 1
    /\ rendered.view.rsvpCount = 2
    /\ rendered.view.cancelButtons # {}

\* C19: when createRSVP sends its insert, the store held fewer confirmed
\* RSVPs than the capacity at the time of its second read, whoever wrote
\* them: rows that another session inserted after a first read that showed
\* the store as it was have been counted by the second check.
C19_SecondCheckCountsOtherSessions ==
    \A t \in Tasks :
        (/\ Running(t)
         /\ Top(t).op = "createRSVP"
         /\ Top(t).pc = "http"
         /\ Top(t).loaded
         /\ Len(confirmedOf(Top(t).existing)) = Top(t).seen1)
            => Top(t).seen < Top(t).event.capacity

\* The step in which an attempt of t's top wrapper call succeeds: the
\* awaited request or nested call has settled and the call resolves.
SuccessStep(t) ==
    /\ Running(t)
    /\ Top(t).pc \in {"http", "cr_update", "co_lookup"}
    /\ Len(stack'[t]) = Len(stack[t]) - 1
    /\ IF Len(stack[t]) = 1
       THEN result'[t].phase = "done" /\ result'[t].ok
       ELSE stack'[t][Len(stack'[t])].ret.ok

\* C20: an attempt that succeeds while the circuit is HALF_OPEN leaves it
\* CLOSED with the failure counter at 0, one that succeeds while CLOSED with
\* a nonzero counter leaves the counter at 0, and so the counter always
\* equals the number of failed attempts since the last successful one.
C20_SuccessResetsBreaker ==
    [][ /\ \A t \in Tasks :
            SuccessStep(t) =>
                /\ circuitState = "HALF_OPEN"
                      => (circuitState' = "CLOSED" /\ failureCount' = 0)
                /\ (circuitState = "CLOSED" /\ failureCount > 0)
                      => (circuitState' = "CLOSED" /\ failureCount' = 0)
        /\ failureCount' = consec' ]_vars

\* C20 witness: a call that began with the circuit OPEN was let through as
\* the trial and succeeded after earlier failures; the circuit is CLOSED
\* and the counter is 0.
C20_Witness ==
    /\ result[1].phase = "done"
    /\ result[1].ok
    /\ result[1].attempts >= 1
    /\ pre[1].circuitState = "OPEN"
    /\ faults >= failureThreshold
    /\ circuitState = "CLOSED"
    /\ failureCount = 0

\* The errors the retry policy names as transient: rate limiting, and
\* network errors without a status or with a status of 500 or more.
TransientError(e) ==
    \/ e.type = "RATE_LIMIT_ERROR"
    \/ e.type = "NETWORK_ERROR" /\ (e.statusCode = 0 \/ e.statusCode >= 500)

\* C21: a failed attempt is followed by a retry only when its error is
\* RATE_LIMIT_ERROR, or NETWORK_ERROR without a status or with a status of
\* 500 or more: whenever a wrapper call waits for its retry timer, or is
\* about to invoke its operation again, the error of the attempt that
\* failed is one of these, so after any other error the operation is not
\* invoked again by that call.
C21_RetryOnlyTransientErrors ==
    \A t \in Tasks : \A i \in 1..Len(stack[t]) :
        (\/ stack[t][i].pc = "backoff"
         \/ stack[t][i].pc = "check" /\ stack[t][i].attempts >= 1)
            => TransientError(stack[t][i].error)

C21_Witness ==
    /\ Running(1)
    /\ Top(1).pc = "backoff"
    /\ Top(1).error = AppError("RATE_LIMIT_ERROR", 429)
    /\ Top(1).attempts = 2
    /\ faults = 2

\* C22: the delay before the retry with index n is 1000 ms times 2^n,
\* raised to at least 5000 ms for RATE_LIMIT_ERROR, plus a jitter of less
\* than 30% of that value, and it is never more than 30000 ms.
C22_RetryDelayBounds ==
    retryTimer.set =>
        LET base == 1000 * pow2(retryTimer.attempt)
            floor == IF retryTimer.type = "RATE_LIMIT_ERROR" /\ base < 5000
                     THEN 5000 ELSE base
        IN /\ retryTimer.delay <= 30000 * Scale
           /\ retryTimer.delay >= Min(floor, 30000) * Scale
           /\ 10 * retryTimer.delay <= 13 * floor * Scale
           /\ retryTimer.delay < 30000 * Scale
                => retryTimer.delay - floor * Scale
                       = 3 * floor * retryTimer.random

C22_Witness ==
    /\ retryTimer.set
    /\ retryTimer.type = "RATE_LIMIT_ERROR"
    /\ retryTimer.attempt = 1
    /\ retryTimer.random = JitterSteps - 1
    /\ retryTimer.delay > 5000 * Scale
    /\ retryTimer.delay < 6500 * Scale

\* A step in which an attempt of a wrapper call of task t fails: the
\* operation was running and the call now waits for a retry or has ended
\* with an error.
AttemptFails(t) ==
    /\ Running(t)
    /\ Top(t).pc \notin {"entry", "check", "backoff"}
    /\ \/ /\ Len(stack'[t]) = Len(stack[t])
          /\ stack'[t][Len(stack'[t])].pc = "backoff"
       \/ /\ Len(stack'[t]) = Len(stack[t]) - 1
          /\ IF Len(stack[t]) = 1
             THEN result'[t].phase = "done" /\ ~result'[t].ok
             ELSE /\ stack'[t][Len(stack'[t])].ret.set
                  /\ ~stack'[t][Len(stack'[t])].ret.ok

\* C23: every failed attempt of a wrapped operation adds one to the failure
\* counter and sets the last-failure time, failures raised without a
\* network call included, and the fifth consecutive failure leaves the
\* circuit OPEN.
C23_EveryFailureCounts ==
    [][ \A t \in Tasks :
            AttemptFails(t)
                => /\ failureCount' = failureCount + 1
                   /\ lastFailureTime' = now
                   /\ consec' >= 5 => circuitState' = "OPEN" ]_vars

C23_Witness ==
    /\ Done(1, "createRSVP")
    /\ result[1].err.type = "CAPACITY_EXCEEDED"
    /\ reqs[1] = 0
    /\ faults = 0
    /\ consec = 5
    /\ failureCount = 5
    /\ lastFailureTime = now
    /\ circuitState = "OPEN"

\* The record of the event lacks a title, a date, or the time that
\* createEvent embeds in the description.
LacksTitleDateOrTime(fields) ==
    \/ fields.title = <<>>
    \/ fields.date = <<>>
    \/ ~includesTimeMarker(fields.description)

\* C24: getEvent fails with VALIDATION_ERROR, is not retried and stores
\* nothing in the cache whenever the record it fetched lacks a title, a
\* date or a time.
C24_IncompleteRecordRejected ==
    (/\ Done(1, "getEvent")
     /\ reqs[1] >= 1
     /\ faults = pre[1].faults
     /\ LacksTitleDateOrTime(events[result[1].eventId]))
        => /\ ~result[1].ok
           /\ result[1].err.type = "VALIDATION_ERROR"
           /\ result[1].attempts = 1
           /\ ~cache[eventKey(result[1].eventId)].present

\* C25: an updateEvent that gives only a new time (or only a new date)
\* returns the event with the new value for that half and the value it had
\* for the other, an updateEvent that gives neither returns the date and
\* time as they were, and the cache entry of the event holds what was
\* returned.
C25_UpdateKeepsOtherHalf ==
    (Done(1, "updateEvent") /\ result[1].ok)
        => LET before == transformEventFromAirtable(result[1].eventId,
                            pre[1].events[result[1].eventId])
               u == result[1].updates
           IN /\ result[1].event.date = IF u.date # <<>> THEN u.date ELSE before.date
              /\ result[1].event.time = IF u.time # <<>> THEN u.time ELSE before.time
              /\ cacheHit(cache, eventKey(result[1].eventId), now)
              /\ cache[eventKey(result[1].eventId)].data = result[1].event

\* The items that are in the queue or in the snapshot of a running drain.
Pending ==
    {queue[i].id : i \in 1..Len(queue)}
        \cup {itemsToProcess[i].id : i \in 1..Len(itemsToProcess)}

\* C26: the operation of a queued item is executed at most 3 times over
\* all drains; an item that has failed 3 times is in the queue no more and
\* is not executed again.
C26_AtMostThreeExecutions ==
    /\ \A id \in 1..queued : executed[id] <= 3
    /\ \A i \in 1..Len(queue) :
          queue[i].retryCount < 3 /\ executed[queue[i].id] = queue[i].retryCount
    /\ \A id \in dropped : executed[id] = 3 /\ id \notin Pending

C26_Witness ==
    /\ 1 \in dropped
    /\ executed[1] = 3
    /\ timers = 0
    /\ ~isProcessing
    /\ queue = <<>>

Quiet == queue = <<>> /\ itemsToProcess = <<>> /\ ~isProcessing

\* C27: whenever a drain is running, a state follows in which the queue
\* and the snapshot are empty and isProcessing is false: every item, the
\* ones queued while a drain was running included, has left the queue
\* because its operation succeeded or failed 3 times. Only finitely many
\* operations are queued.
C27_QueueDrains == isProcessing ~> Quiet

C27_Witness ==
    /\ Quiet
    /\ queued = MaxQueued
    /\ 2 \in late
    /\ executed[2] >= 2
    /\ 1 \in dropped
    /\ timers = 0

\* C28: one call to createRSVP adds at most one row to the RSVPs table,
\* also when the response of an insert is lost after the store committed
\* the row and the wrapper runs the operation again.
C28_OneCallOneRow ==
    result[1].op = "createRSVP"
        => Len(rsvpTable) <= Len(pre[1].rsvpTable) + 1

RejectionArrives(t) ==
    /\ Running(t)
    /\ Top(t).ret.set
    /\ ~Top(t).ret.ok
    /\ Top(t).ret.err = AppError("NETWORK_ERROR", 0)
    /\ circuitRejects
    /\ stack'[t] # stack[t]

\* C30: a call rejected by the open circuit changes neither the failure
\* counter nor the last-failure time, whether the rejected call is a public
\* one or a store call nested in a wrapped operation and the rejection is
\* passed on by that operation.
C30_RejectionsLeaveBreakerAlone ==
    [][ \A t \in Tasks :
            \/ CheckStep(t) /\ RejectedAtCheck(t)
            \/ RejectionArrives(t)
            => /\ failureCount' = failureCount
               /\ lastFailureTime' = lastFailureTime ]_vars

====
